---- MODULE Spec2Model ----
(***************************************************************************)
(* Model of the QoreDB backend core (src-tauri/src): the SQL safety        *)
(* classifier, the policy gate of execute_query, the Query Manager and the *)
(* relational drivers' per-session transaction affinity.                   *)
(*                                                                         *)
(* Specifications:                                                         *)
(*   Spec    the command layer: connect / disconnect / set_safety_policy / *)
(*           execute_query (gate, registration, driver call, completion)   *)
(*   SpecQM  the Query Manager API called sequentially                     *)
(*   SpecTx  one relational driver: begin / commit / rollback / execute,   *)
(*           one sequential caller per session                             *)
(***************************************************************************)
EXTENDS Integers, Sequences, FiniteSets, TLC

VARIABLES
    sessions,         \* SessionManager.sessions : SessionId -> ActiveSession config
    policy,           \* AppState.policy (in-memory SafetyPolicy)
    active,           \* QueryManager.active : QueryId -> SessionId
    by_session,       \* QueryManager.by_session : SessionId -> set of QueryId
    last_by_session,  \* QueryManager.last_by_session : SessionId -> QueryId
    running,          \* driver.execute calls in flight on behalf of execute_query
    drv_sessions,     \* relational driver: sessions map (SessionId -> driver session)
    in_tx,            \* caller's view per driver session: the connection of the
                      \* begin_transaction that returned Ok with no commit / rollback
                      \* since, and whether a commit / rollback has ended one
    is_unlocked,      \* AppState.vault_lock : VaultLock.is_unlocked
    keyring,          \* the OS keyring: (service, key) -> stored value
    pw_removed,       \* history: remove_master_password has succeeded and no master
                      \* password has been set up since
    config_file,      \* what config.json holds: absent, a SafetyPolicy, or no valid JSON
    env_vars,         \* the two QOREDB_PROD_* environment variables of the process
    calls,            \* handler and manager calls in progress, each with its position
    tunnels,          \* ssh child processes spawned by SshTunnel::open and alive
    last              \* what the most recent operation was given and what it returned

vars == <<sessions, policy, active, by_session, last_by_session, running,
          drv_sessions, in_tx, is_unlocked, keyring, pw_removed,
          config_file, env_vars, calls, tunnels, last>>

(***************************************************************************)
(* Bounds                                                                  *)
(***************************************************************************)
NumSessions == 1
NumQueryIds == 1
QmSessions == 2
QmQueryIds == 2
OpenConns == 2
NumPasswords == 2
NumConnIds == 2
PolicyCallers == 2
SetExprDepth == 1
MaxCtes == 1
MaxStatements == 2
SavedCallers == 1
QmCallers == 2
SmCallers == 2
MaxTunnels == 2
StateCallers == 2
GateCallers == 1
DrvCallers == 2

\* Option<T>: None, or Some(x)
None == <<>>

Some(x) == <<x>>

unwrap_or(opt, default) == IF opt = None THEN default ELSE opt[1]

\* neither QOREDB_PROD_REQUIRE_CONFIRMATION nor QOREDB_PROD_BLOCK_DANGEROUS is set
NoOverrides ==
    [QOREDB_PROD_REQUIRE_CONFIRMATION |-> None, QOREDB_PROD_BLOCK_DANGEROUS |-> None]

(***************************************************************************)
(* Finite maps (HashMap): functions with a changing domain                 *)
(***************************************************************************)
EmptyMap == [k \in {} |-> None]

MapPut(m, k, v) == [x \in (DOMAIN m) \cup {k} |-> IF x = k THEN v ELSE m[x]]

MapRemove(m, k) == [x \in (DOMAIN m) \ {k} |-> m[x]]

MapGet(m, k) == IF k \in DOMAIN m THEN Some(m[k]) ELSE None

(***************************************************************************)
(* SQL safety classifier (engine/sql_safety.rs).  A statement is the parse *)
(* tree sqlparser returns; the parser itself is a library, so a query is   *)
(* given by what the parser makes of it.                                   *)
(***************************************************************************)
ReadOnlyKinds_WithTruncate ==
    {"ExplainTable", "ShowFunctions", "ShowVariable", "ShowStatus", "ShowVariables",
     "ShowCreate", "ShowColumns", "ShowDatabases", "ShowSchemas", "ShowCharset",
     "ShowObjects", "ShowTables", "ShowViews", "ShowCollation", "Set", "Use",
     "StartTransaction", "Commit", "Rollback", "Savepoint", "ReleaseSavepoint",
     "Truncate"}

ReadOnlyKinds ==
    {"ExplainTable", "ShowFunctions", "ShowVariable", "ShowStatus", "ShowVariables",
     "ShowCreate", "ShowColumns", "ShowDatabases", "ShowSchemas", "ShowCharset",
     "ShowObjects", "ShowTables", "ShowViews", "ShowCollation", "Set", "Use",
     "StartTransaction", "Commit", "Rollback", "Savepoint", "ReleaseSavepoint"}

DangerousKinds_NoTruncate ==
    {"Drop", "DropFunction", "DropDomain", "DropProcedure", "AlterTable",
     "AlterSchema", "AlterIndex", "AlterView", "AlterType", "AlterRole", "AlterPolicy",
     "AlterConnector", "AlterSession", "AlterUser"}

DangerousKinds ==
    {"Drop", "DropFunction", "DropDomain", "DropProcedure", "Truncate", "AlterTable",
     "AlterSchema", "AlterIndex", "AlterView", "AlterType", "AlterRole", "AlterPolicy",
     "AlterConnector", "AlterSession", "AlterUser"}

select_has_into(select) == select.into

RECURSIVE set_expr_is_mutation(_)
set_expr_is_mutation(expr) ==
    CASE expr.k = "Select" -> select_has_into(expr)
      [] expr.k = "Query" -> set_expr_is_mutation(expr.query.body)
      [] expr.k = "SetOperation" ->
            set_expr_is_mutation(expr.left) \/ set_expr_is_mutation(expr.right)
      [] expr.k \in {"Insert", "Update", "Delete", "Merge"} -> TRUE
      [] OTHER -> FALSE

query_is_mutation(query) == set_expr_is_mutation(query.body)

RECURSIVE is_mutation_statement(_)
is_mutation_statement(statement) ==
    CASE statement.kind = "Query" -> query_is_mutation(statement.query)
      [] statement.kind = "Explain" ->
            IF statement.analyze THEN is_mutation_statement(statement.statement)
            ELSE FALSE
      [] statement.kind \in ReadOnlyKinds -> FALSE
      [] OTHER -> TRUE

RECURSIVE is_dangerous_statement(_)
is_dangerous_statement(statement) ==
    CASE statement.kind \in DangerousKinds -> TRUE
      [] statement.kind = "Update" -> ~statement.selection
      [] statement.kind = "Delete" -> ~statement.selection
      [] statement.kind = "Explain" /\ statement.analyze ->
            is_dangerous_statement(statement.statement)
      [] OTHER -> FALSE

\* A query text: whether it is blank, what Parser::parse_sql returns for it,
\* and whether it contains one of is_mongo_mutation's literal patterns.
analyze_sql_FirstStatement(driver_id, sql) ==
    IF sql.blank THEN [ok |-> FALSE, err |-> "Empty SQL"]
    ELSE IF ~sql.parses THEN [ok |-> FALSE, err |-> "sql parser error"]
    ELSE [ok |-> TRUE,
          is_mutation |-> is_mutation_statement(sql.statements[1]),
          is_dangerous |-> is_dangerous_statement(sql.statements[1])]

analyze_sql(driver_id, sql) ==
    IF sql.blank THEN [ok |-> FALSE, err |-> "Empty SQL"]
    ELSE IF ~sql.parses THEN [ok |-> FALSE, err |-> "sql parser error"]
    ELSE [ok |-> TRUE,
          is_mutation |-> \E i \in 1..Len(sql.statements) :
                              is_mutation_statement(sql.statements[i]),
          is_dangerous |-> \E i \in 1..Len(sql.statements) :
                              is_dangerous_statement(sql.statements[i])]

is_mongo_mutation(query) == query.mongo_raw \/ query.mongo_json

SelectBody == [k |-> "Select", into |-> FALSE]

SelectQuery == [with |-> <<>>, body |-> SelectBody]

Text(stmts) == [blank |-> FALSE, parses |-> TRUE, statements |-> stmts,
                mongo_raw |-> FALSE, mongo_json |-> FALSE]

\* The query texts the command layer is exercised with.
Corpus ==
    << \* "THIS IS NOT SQL"
       [blank |-> FALSE, parses |-> FALSE, statements |-> <<>>,
        mongo_raw |-> FALSE, mongo_json |-> FALSE],
       \* "SELECT * FROM users"
       Text(<<[kind |-> "Query", query |-> SelectQuery]>>),
       \* "UPDATE users SET name='x' WHERE id=1"
       Text(<<[kind |-> "Update", selection |-> TRUE]>>),
       \* "DROP TABLE audit"
       Text(<<[kind |-> "Drop"]>>),
       \* "db.users.insertOne({})"
       [blank |-> FALSE, parses |-> FALSE, statements |-> <<>>,
        mongo_raw |-> TRUE, mongo_json |-> FALSE] >>

Queries == 1..Len(Corpus)

(***************************************************************************)
(* Query Manager (engine/query_manager.rs).  qm is the record of the three *)
(* maps; each operation is given the maps and returns them.                *)
(***************************************************************************)
QM == [active |-> active, by_session |-> by_session, last_by_session |-> last_by_session]

QMNew == [active |-> EmptyMap, by_session |-> EmptyMap, last_by_session |-> EmptyMap]

\* register_with_id leaving last_by_session alone
register_with_id_NoLast(qm, session_id, query_id) ==
    IF query_id \in DOMAIN qm.active
    THEN [result |-> [ok |-> FALSE, err |-> "Query ID already registered"], qm |-> qm]
    ELSE [result |-> [ok |-> TRUE, query_id |-> query_id],
          qm |-> [active |-> MapPut(qm.active, query_id, session_id),
                  by_session |->
                      MapPut(qm.by_session, session_id,
                             (IF session_id \in DOMAIN qm.by_session
                              THEN qm.by_session[session_id] ELSE {}) \cup {query_id}),
                  last_by_session |-> qm.last_by_session]]

\* register_with_id looking for the duplicate only after the three inserts
register_with_id_LateCheck(qm, session_id, query_id) ==
    [result |-> IF query_id \in DOMAIN qm.active
                THEN [ok |-> FALSE, err |-> "Query ID already registered"]
                ELSE [ok |-> TRUE, query_id |-> query_id],
     qm |-> [active |-> MapPut(qm.active, query_id, session_id),
             by_session |->
                 MapPut(qm.by_session, session_id,
                        (IF session_id \in DOMAIN qm.by_session
                         THEN qm.by_session[session_id] ELSE {}) \cup {query_id}),
             last_by_session |-> MapPut(qm.last_by_session, session_id, query_id)]]

register_with_id(qm, session_id, query_id) ==
    IF query_id \in DOMAIN qm.active
    THEN [result |-> [ok |-> FALSE, err |-> "Query ID already registered"], qm |-> qm]
    ELSE [result |-> [ok |-> TRUE, query_id |-> query_id],
          qm |-> [active |-> MapPut(qm.active, query_id, session_id),
                  by_session |->
                      MapPut(qm.by_session, session_id,
                             (IF session_id \in DOMAIN qm.by_session
                              THEN qm.by_session[session_id] ELSE {}) \cup {query_id}),
                  last_by_session |-> MapPut(qm.last_by_session, session_id, query_id)]]

\* QueryId::new() inside register: a v4 UUID, taken to differ from every id in use.
FreshQueryIds(qm, ids) == ids \ DOMAIN qm.active

register(qm, session_id, query_id) ==
    [result |-> query_id, qm |-> register_with_id(qm, session_id, query_id).qm]

finish(qm, query_id) ==
    IF query_id \notin DOMAIN qm.active THEN qm
    ELSE LET session_id == qm.active[query_id]
             set == IF session_id \in DOMAIN qm.by_session
                    THEN qm.by_session[session_id] \ {query_id} ELSE {}
         IN  [active |-> MapRemove(qm.active, query_id),
              by_session |->
                  IF session_id \notin DOMAIN qm.by_session THEN qm.by_session
                  ELSE IF set = {} THEN MapRemove(qm.by_session, session_id)
                  ELSE MapPut(qm.by_session, session_id, set),
              last_by_session |->
                  IF MapGet(qm.last_by_session, session_id) = Some(query_id)
                  THEN MapRemove(qm.last_by_session, session_id)
                  ELSE qm.last_by_session]

contains(qm, query_id) == query_id \in DOMAIN qm.active

session_for(qm, query_id) == MapGet(qm.active, query_id)

last_for_session(qm, session_id) == MapGet(qm.last_by_session, session_id)

SetQM(qm) ==
    /\ active' = qm.active
    /\ by_session' = qm.by_session
    /\ last_by_session' = qm.last_by_session

(***************************************************************************)
(* Command layer (commands/query.rs, commands/connection.rs,               *)
(* commands/policy.rs, engine/session_manager.rs)                          *)
(***************************************************************************)
SessionIds == 1..NumSessions

QueryIds == 1..NumQueryIds

\* The registry's drivers as the command layer tells them apart: "mysql" takes
\* the branches of "postgres" everywhere below (a SQL driver, transactions on).
Drivers == {"postgres", "mongodb"}

Environments == {"development", "production"}

Configs == [driver : Drivers, read_only : BOOLEAN, environment : Environments]

Policies == [prod_require_confirmation : BOOLEAN, prod_block_dangerous_sql : BOOLEAN]

READ_ONLY_BLOCKED == "Operation blocked: read-only mode"

DANGEROUS_BLOCKED == "Dangerous query blocked: confirmation required"

DANGEROUS_BLOCKED_POLICY == "Dangerous query blocked by policy"

SQL_PARSE_BLOCKED == "Operation blocked: SQL parser could not classify the query"

SessionNotFound == "Session not found"

is_read_only(session_id) ==
    IF session_id \in DOMAIN sessions
    THEN [ok |-> TRUE, value |-> sessions[session_id].read_only]
    ELSE [ok |-> FALSE, err |-> SessionNotFound]

is_production(session_id) ==
    IF session_id \in DOMAIN sessions
    THEN [ok |-> TRUE, value |-> sessions[session_id].environment = "production"]
    ELSE [ok |-> FALSE, err |-> SessionNotFound]

get_driver(session_id) ==
    IF session_id \in DOMAIN sessions
    THEN [ok |-> TRUE, value |-> sessions[session_id].driver]
    ELSE [ok |-> FALSE, err |-> SessionNotFound]

\* the gate with the production rules tried before the read-only rule
PolicyGate_ProdFirst(driver_id, read_only, is_prod, pol, acknowledged, query) ==
    LET is_sql_driver == driver_id # "mongodb"
        analysis == analyze_sql(driver_id, query)
        parse_failed == is_sql_driver /\ ~analysis.ok
        is_mutation == IF is_sql_driver THEN analysis.ok /\ analysis.is_mutation
                       ELSE is_mongo_mutation(query)
        is_dangerous == is_sql_driver /\ analysis.ok /\ analysis.is_dangerous
    IN  IF parse_failed /\ is_prod /\ pol.prod_block_dangerous_sql
        THEN Some(DANGEROUS_BLOCKED_POLICY \o ": SQL parse error: " \o analysis.err)
        ELSE IF parse_failed /\ is_prod /\ pol.prod_require_confirmation /\ ~acknowledged
        THEN Some(DANGEROUS_BLOCKED \o ": SQL parse error: " \o analysis.err)
        ELSE IF parse_failed /\ read_only
        THEN Some(SQL_PARSE_BLOCKED \o ": " \o analysis.err)
        ELSE IF is_prod /\ is_dangerous /\ pol.prod_block_dangerous_sql
        THEN Some(DANGEROUS_BLOCKED_POLICY)
        ELSE IF is_prod /\ is_dangerous /\ pol.prod_require_confirmation /\ ~acknowledged
        THEN Some(DANGEROUS_BLOCKED)
        ELSE IF read_only /\ is_mutation
        THEN Some(READ_ONLY_BLOCKED)
        ELSE None

\* the gate with an acknowledgement also lifting the block-dangerous rule
PolicyGate_AckLiftsBlock(driver_id, read_only, is_prod, pol, acknowledged, query) ==
    LET is_sql_driver == driver_id # "mongodb"
        analysis == analyze_sql(driver_id, query)
        parse_failed == is_sql_driver /\ ~analysis.ok
        is_mutation == IF is_sql_driver THEN analysis.ok /\ analysis.is_mutation
                       ELSE is_mongo_mutation(query)
        is_dangerous == is_sql_driver /\ analysis.ok /\ analysis.is_dangerous
    IN  IF parse_failed /\ read_only
        THEN Some(SQL_PARSE_BLOCKED \o ": " \o analysis.err)
        ELSE IF parse_failed /\ is_prod /\ pol.prod_block_dangerous_sql /\ ~acknowledged
        THEN Some(DANGEROUS_BLOCKED_POLICY \o ": SQL parse error: " \o analysis.err)
        ELSE IF parse_failed /\ is_prod /\ pol.prod_require_confirmation /\ ~acknowledged
        THEN Some(DANGEROUS_BLOCKED \o ": SQL parse error: " \o analysis.err)
        ELSE IF read_only /\ is_mutation
        THEN Some(READ_ONLY_BLOCKED)
        ELSE IF is_prod /\ is_dangerous /\ pol.prod_block_dangerous_sql /\ ~acknowledged
        THEN Some(DANGEROUS_BLOCKED_POLICY)
        ELSE IF is_prod /\ is_dangerous /\ pol.prod_require_confirmation /\ ~acknowledged
        THEN Some(DANGEROUS_BLOCKED)
        ELSE None

\* the gate with unparseable SQL only ever blocked for a read-only session
PolicyGate_UnparsedProdOpen(driver_id, read_only, is_prod, pol, acknowledged, query) ==
    LET is_sql_driver == driver_id # "mongodb"
        analysis == analyze_sql(driver_id, query)
        parse_failed == is_sql_driver /\ ~analysis.ok
        is_mutation == IF is_sql_driver THEN analysis.ok /\ analysis.is_mutation
                       ELSE is_mongo_mutation(query)
        is_dangerous == is_sql_driver /\ analysis.ok /\ analysis.is_dangerous
    IN  IF parse_failed /\ read_only
        THEN Some(SQL_PARSE_BLOCKED \o ": " \o analysis.err)
        ELSE IF read_only /\ is_mutation
        THEN Some(READ_ONLY_BLOCKED)
        ELSE IF is_prod /\ is_dangerous /\ pol.prod_block_dangerous_sql
        THEN Some(DANGEROUS_BLOCKED_POLICY)
        ELSE IF is_prod /\ is_dangerous /\ pol.prod_require_confirmation /\ ~acknowledged
        THEN Some(DANGEROUS_BLOCKED)
        ELSE None

\* the gate with the acknowledgement never read (unwrap_or(false) dropped)
PolicyGate_AckIgnored(driver_id, read_only, is_prod, pol, acknowledged, query) ==
    LET is_sql_driver == driver_id # "mongodb"
        analysis == analyze_sql(driver_id, query)
        parse_failed == is_sql_driver /\ ~analysis.ok
        is_mutation == IF is_sql_driver THEN analysis.ok /\ analysis.is_mutation
                       ELSE is_mongo_mutation(query)
        is_dangerous == is_sql_driver /\ analysis.ok /\ analysis.is_dangerous
    IN  IF parse_failed /\ read_only
        THEN Some(SQL_PARSE_BLOCKED \o ": " \o analysis.err)
        ELSE IF parse_failed /\ is_prod /\ pol.prod_block_dangerous_sql
        THEN Some(DANGEROUS_BLOCKED_POLICY \o ": SQL parse error: " \o analysis.err)
        ELSE IF parse_failed /\ is_prod /\ pol.prod_require_confirmation
        THEN Some(DANGEROUS_BLOCKED \o ": SQL parse error: " \o analysis.err)
        ELSE IF read_only /\ is_mutation
        THEN Some(READ_ONLY_BLOCKED)
        ELSE IF is_prod /\ is_dangerous /\ pol.prod_block_dangerous_sql
        THEN Some(DANGEROUS_BLOCKED_POLICY)
        ELSE IF is_prod /\ is_dangerous /\ pol.prod_require_confirmation
        THEN Some(DANGEROUS_BLOCKED)
        ELSE None

\* execute_query, lines 152-247: the error the gate blocks with, or None when the
\* statement may go on to registration and the driver.
PolicyGate(driver_id, read_only, is_prod, pol, acknowledged, query) ==
    LET is_sql_driver == driver_id # "mongodb"
        analysis == analyze_sql(driver_id, query)
        parse_failed == is_sql_driver /\ ~analysis.ok
        is_mutation == IF is_sql_driver THEN analysis.ok /\ analysis.is_mutation
                       ELSE is_mongo_mutation(query)
        is_dangerous == is_sql_driver /\ analysis.ok /\ analysis.is_dangerous
    IN  IF parse_failed /\ read_only
        THEN Some(SQL_PARSE_BLOCKED \o ": " \o analysis.err)
        ELSE IF parse_failed /\ is_prod /\ pol.prod_block_dangerous_sql
        THEN Some(DANGEROUS_BLOCKED_POLICY \o ": SQL parse error: " \o analysis.err)
        ELSE IF parse_failed /\ is_prod /\ pol.prod_require_confirmation /\ ~acknowledged
        THEN Some(DANGEROUS_BLOCKED \o ": SQL parse error: " \o analysis.err)
        ELSE IF read_only /\ is_mutation
        THEN Some(READ_ONLY_BLOCKED)
        ELSE IF is_prod /\ is_dangerous /\ pol.prod_block_dangerous_sql
        THEN Some(DANGEROUS_BLOCKED_POLICY)
        ELSE IF is_prod /\ is_dangerous /\ pol.prod_require_confirmation /\ ~acknowledged
        THEN Some(DANGEROUS_BLOCKED)
        ELSE None

\* registration hoisted above the gate: a blocked request leaves its id behind
RegisterQuery_BeforeGate(gate, qm, session, query_id, minted) ==
    LET r == IF query_id # None THEN register_with_id(qm, session, query_id[1])
             ELSE [result |-> [ok |-> TRUE, query_id |-> minted],
                   qm |-> register(qm, session, minted).qm]
    IN  IF gate # None THEN [result |-> [ok |-> FALSE, err |-> gate[1]], qm |-> r.qm]
        ELSE IF r.result.ok THEN r
        ELSE [result |-> [ok |-> FALSE,
                          err |-> "Failed to register query ID: " \o r.result.err],
              qm |-> r.qm]

\* execute_query, lines 249-259: registration comes after the gate has let the
\* statement through; a caller-supplied id goes through register_with_id, an
\* absent one is minted by register.
RegisterQuery(gate, qm, session, query_id, minted) ==
    IF gate # None THEN [result |-> [ok |-> FALSE, err |-> gate[1]], qm |-> qm]
    ELSE IF query_id # None
    THEN LET r == register_with_id(qm, session, query_id[1])
         IN  IF r.result.ok THEN r
             ELSE [result |-> [ok |-> FALSE,
                               err |-> "Failed to register query ID: " \o r.result.err],
                   qm |-> r.qm]
    ELSE LET r == register(qm, session, minted)
         IN  [result |-> [ok |-> TRUE, query_id |-> r.result], qm |-> r.qm]

\* last while no operation's outcome is waiting to be looked at
Idle == [args |-> [cmd |-> "none"], resp |-> [ret |-> "none"]]

Envelope(success, error, query_id) ==
    [ret |-> "Ok", success |-> success, error |-> error, query_id |-> query_id]

ExecuteQuery(session, q, acknowledged_dangerous, query_id, timeout_ms) ==
    LET pol == policy
        args == [cmd |-> "execute_query", session |-> session, query |-> q,
                 acknowledged_dangerous |-> acknowledged_dangerous,
                 query_id |-> query_id]
        ro == is_read_only(session)
        drv == get_driver(session)
        prod == is_production(session)
        acknowledged == unwrap_or(acknowledged_dangerous, FALSE)
    IN  /\ last = Idle
        /\ UNCHANGED <<sessions, policy, drv_sessions, in_tx,
                   is_unlocked, keyring, pw_removed,
                   config_file, env_vars, calls, tunnels>>
        /\ IF ~ro.ok \/ ~drv.ok
           THEN /\ last' = [args |-> args,
                            resp |-> Envelope(FALSE, Some(SessionNotFound), None)]
                /\ UNCHANGED <<active, by_session, last_by_session, running>>
           ELSE \E gate \in {PolicyGate(drv.value, ro.value, prod.ok /\ prod.value, pol,
                                        acknowledged, Corpus[q])} :
                \E minted \in (IF gate = None /\ query_id = None
                                THEN FreshQueryIds(QM, QueryIds) ELSE {0}) :
                \E reg \in {RegisterQuery(gate, QM, session, query_id, minted)} :
                   /\ SetQM(reg.qm)
                   /\ IF reg.result.ok
                      THEN /\ running' = running \cup
                                  {[session |-> session,
                                    query_id |-> reg.result.query_id,
                                    timeout |-> timeout_ms # None]}
                           /\ last' = [args |-> args,
                                       resp |-> [ret |-> "pending",
                                                 query_id |-> Some(reg.result.query_id)]]
                      ELSE /\ running' = running
                           /\ last' = [args |-> args,
                                       resp |-> IF gate # None
                                                THEN Envelope(FALSE, gate, None)
                                                ELSE [ret |-> "Err",
                                                      err |-> reg.result.err]]

\* driver.execute returns (lines 280-304): the handle is released, the envelope
\* carries the query id.
ExecuteQueryReturn(r, ok) ==
    /\ last = Idle
    /\ r \in running
    /\ running' = running \ {r}
    /\ SetQM(finish(QM, r.query_id))
    /\ last' = [args |-> [cmd |-> "execute_query_return", session |-> r.session],
                resp |-> Envelope(ok, IF ok THEN None ELSE Some("driver error"),
                                  Some(r.query_id))]
    /\ UNCHANGED <<sessions, policy, drv_sessions, in_tx,
                   is_unlocked, keyring, pw_removed,
                   config_file, env_vars, calls, tunnels>>

\* the deadline fires first (lines 265-277): cancel, release, timeout envelope.
ExecuteQueryTimeout(r) ==
    /\ last = Idle
    /\ r \in running
    /\ r.timeout
    /\ running' = running \ {r}
    /\ SetQM(finish(QM, r.query_id))
    /\ last' = [args |-> [cmd |-> "execute_query_timeout", session |-> r.session],
                resp |-> Envelope(FALSE, Some("Operation timed out"), Some(r.query_id))]
    /\ UNCHANGED <<sessions, policy, drv_sessions, in_tx,
                   is_unlocked, keyring, pw_removed,
                   config_file, env_vars, calls, tunnels>>

\* SessionManager::connect: the driver mints the session id (SessionId::new()).
Connect(session_id, config) ==
    /\ last = Idle
    /\ session_id \notin DOMAIN sessions
    /\ \A r \in running : r.session # session_id
    /\ sessions' = MapPut(sessions, session_id, config)
    /\ last' = [args |-> [cmd |-> "connect"],
                resp |-> [ret |-> "Ok", success |-> TRUE, session_id |-> Some(session_id)]]
    /\ UNCHANGED <<policy, active, by_session, last_by_session, running,
                   drv_sessions, in_tx,
                   is_unlocked, keyring, pw_removed,
                   config_file, env_vars, calls, tunnels>>

\* SessionManager::disconnect: the session leaves the map first.
Disconnect(session_id) ==
    /\ last = Idle
    /\ sessions' = IF session_id \in DOMAIN sessions
                   THEN MapRemove(sessions, session_id) ELSE sessions
    /\ last' = [args |-> [cmd |-> "disconnect", session |-> session_id],
                resp |-> IF session_id \in DOMAIN sessions
                         THEN [ret |-> "Ok", success |-> TRUE, error |-> None]
                         ELSE [ret |-> "Ok", success |-> FALSE,
                               error |-> Some(SessionNotFound)]]
    /\ UNCHANGED <<policy, active, by_session, last_by_session, running,
                   drv_sessions, in_tx,
                   is_unlocked, keyring, pw_removed,
                   config_file, env_vars, calls, tunnels>>

\* set_safety_policy: the in-memory policy becomes what SafetyPolicy::load()
\* yields after the save (the file with the environment's overrides); a failed
\* save leaves it alone.
SetSafetyPolicy(effective, saved) ==
    /\ last = Idle
    /\ policy' = IF saved THEN effective ELSE policy
    /\ last' = [args |-> [cmd |-> "set_safety_policy"],
                resp |-> [ret |-> "Ok", success |-> saved]]
    /\ UNCHANGED <<sessions, active, by_session, last_by_session, running,
                   drv_sessions, in_tx,
                   is_unlocked, keyring, pw_removed,
                   config_file, env_vars, calls, tunnels>>


\* The outcome of the last operation has been looked at; the next one may start.
Deliver ==
    /\ last # Idle
    /\ last' = Idle
    /\ UNCHANGED <<sessions, policy, active, by_session, last_by_session, running,
                   drv_sessions, in_tx,
                   is_unlocked, keyring, pw_removed,
                   config_file, env_vars, calls, tunnels>>

Init ==
    /\ sessions = EmptyMap
    /\ policy \in Policies
    /\ active = EmptyMap
    /\ by_session = EmptyMap
    /\ last_by_session = EmptyMap
    /\ running = {}
    /\ drv_sessions = EmptyMap
    /\ in_tx = EmptyMap
    /\ is_unlocked = TRUE
    /\ keyring = EmptyMap
    /\ pw_removed = FALSE
    /\ config_file = None
    /\ env_vars = NoOverrides
    /\ calls = {}
    /\ tunnels = {}
    /\ last = Idle

OptBool == {None, Some(TRUE), Some(FALSE)}

OptQueryId == {None} \cup {Some(id) : id \in QueryIds}

OptTimeout == {None, Some(1000)}

Next ==
    \/ \E s \in SessionIds, c \in Configs : Connect(s, c)
    \/ \E s \in SessionIds : Disconnect(s)
    \/ \E p \in Policies, saved \in BOOLEAN : SetSafetyPolicy(p, saved)
    \/ \E s \in SessionIds, q \in Queries, ack \in OptBool,
          id \in OptQueryId, t \in OptTimeout : ExecuteQuery(s, q, ack, id, t)
    \/ \E r \in running, ok \in BOOLEAN : ExecuteQueryReturn(r, ok)
    \/ \E r \in running : ExecuteQueryTimeout(r)
    \/ Deliver

Spec == Init /\ [][Next]_vars

(***************************************************************************)
(* The policy gate of execute_query: claims C1-C5 (under Spec)             *)
(***************************************************************************)
\* The last operation was an execute_query on a session the manager knows.
ExecOnSession == last.args.cmd = "execute_query" /\ last.args.session \in DOMAIN sessions

ExecCfg == sessions[last.args.session]

ExecSql == ExecCfg.driver # "mongodb"

ExecProd == ExecCfg.environment = "production"

ExecAnalysis == analyze_sql(ExecCfg.driver, Corpus[last.args.query])

ExecAcked == last.args.acknowledged_dangerous = Some(TRUE)

ExecMutation == ExecOnSession /\ ExecSql /\ ExecAnalysis.ok /\ ExecAnalysis.is_mutation

ExecDangerous == ExecOnSession /\ ExecSql /\ ExecAnalysis.ok /\ ExecAnalysis.is_dangerous

ExecUnparsed == ExecOnSession /\ ExecSql /\ ~ExecAnalysis.ok

\* The envelope of a request stopped before registration.
BlockedWith(error) == last.resp = Envelope(FALSE, Some(error), None)

\* The statement was registered and handed to driver.execute.
Dispatched == last.resp.ret = "pending"

\* The handler failed at registration: the supplied query id is registered already.
DuplicateIdFailure ==
    /\ last.resp.ret = "Err"
    /\ last.args.query_id # None
    /\ last.args.query_id[1] \in DOMAIN active

\* C1: on a read-only SQL session a statement parsed as a mutation is answered
\* success = false with exactly "Operation blocked: read-only mode", whatever
\* the environment, the policy and the acknowledgement are.
C1_ReadOnlyMutationBlocked ==
    (ExecMutation /\ ExecCfg.read_only) => BlockedWith(READ_ONLY_BLOCKED)

\* C1 witness: a read-only production session, block-dangerous on, an acknowledged
\* DROP: the read-only reason is the one reported.
C1_Witness ==
    /\ ExecMutation /\ ExecDangerous /\ ExecCfg.read_only /\ ExecProd
    /\ policy.prod_block_dangerous_sql /\ ExecAcked
    /\ BlockedWith(READ_ONLY_BLOCKED)

\* C2: on a production session with prod_block_dangerous_sql a dangerous
\* statement is blocked and not handed to the driver, acknowledged or not.
C2_ProdDangerousBlocked ==
    (ExecDangerous /\ ExecProd /\ policy.prod_block_dangerous_sql)
        => /\ ~Dispatched
           /\ \/ BlockedWith(READ_ONLY_BLOCKED)
              \/ BlockedWith(DANGEROUS_BLOCKED_POLICY)

\* C2 witness: the acknowledged request on a writable production session is
\* blocked by policy.
C2_Witness ==
    /\ ExecDangerous /\ ExecProd /\ ~ExecCfg.read_only
    /\ policy.prod_block_dangerous_sql /\ ExecAcked
    /\ BlockedWith(DANGEROUS_BLOCKED_POLICY)

UnparsedOutcome ==
    IF ExecCfg.read_only
    THEN BlockedWith(SQL_PARSE_BLOCKED \o ": " \o ExecAnalysis.err)
    ELSE IF ExecProd /\ policy.prod_block_dangerous_sql
    THEN BlockedWith(DANGEROUS_BLOCKED_POLICY \o ": SQL parse error: " \o ExecAnalysis.err)
    ELSE IF ExecProd /\ policy.prod_require_confirmation /\ ~ExecAcked
    THEN BlockedWith(DANGEROUS_BLOCKED \o ": SQL parse error: " \o ExecAnalysis.err)
    ELSE Dispatched

ParseErrors == {"Empty SQL", "sql parser error"}

GateErrors ==
    {READ_ONLY_BLOCKED, DANGEROUS_BLOCKED, DANGEROUS_BLOCKED_POLICY}
    \cup {SQL_PARSE_BLOCKED \o ": " \o e : e \in ParseErrors}
    \cup {DANGEROUS_BLOCKED_POLICY \o ": SQL parse error: " \o e : e \in ParseErrors}
    \cup {DANGEROUS_BLOCKED \o ": SQL parse error: " \o e : e \in ParseErrors}

\* The last operation was an execute_query the gate blocked.
GateBlocked ==
    /\ last.args.cmd = "execute_query"
    /\ last.resp.ret = "Ok"
    /\ \E e \in GateErrors : last.resp.error = Some(e)

\* C5: an execute_query blocked by the gate registers no query id, starts no
\* driver.execute, answers query_id = null and leaves the three Query Manager
\* maps as they were.
C5_BlockedLeavesNoTrace ==
    [][GateBlocked' => /\ UNCHANGED <<active, by_session, last_by_session, running>>
                       /\ last'.resp.query_id = None]_vars

\* C5 witness: a request was blocked while another query was registered and running.
C5_Witness == GateBlocked /\ DOMAIN active # {} /\ running # {}

(***************************************************************************)
(* SpecQM: the Query Manager called directly, one call after another       *)
(***************************************************************************)
QmSessionIds == 1..QmSessions

QmIds == 1..QmQueryIds

QmRegister(session_id) ==
    /\ last = Idle
    /\ \E minted \in FreshQueryIds(QM, QmIds) :
          \E r \in {register(QM, session_id, minted)} :
             /\ SetQM(r.qm)
             /\ last' = [args |-> [cmd |-> "register", session |-> session_id],
                         resp |-> [query_id |-> r.result]]
    /\ UNCHANGED <<sessions, policy, running, drv_sessions, in_tx,
                   is_unlocked, keyring, pw_removed,
                   config_file, env_vars, calls, tunnels>>

QmRegisterWithId(session_id, query_id) ==
    /\ last = Idle
    /\ \E r \in {register_with_id(QM, session_id, query_id)} :
          /\ SetQM(r.qm)
          /\ last' = [args |-> [cmd |-> "register_with_id", session |-> session_id,
                                query_id |-> query_id],
                      resp |-> r.result]
    /\ UNCHANGED <<sessions, policy, running, drv_sessions, in_tx,
                   is_unlocked, keyring, pw_removed,
                   config_file, env_vars, calls, tunnels>>

QmFinish(query_id) ==
    /\ last = Idle
    /\ SetQM(finish(QM, query_id))
    /\ last' = [args |-> [cmd |-> "finish", query_id |-> query_id],
                resp |-> [ret |-> "Ok"]]
    /\ UNCHANGED <<sessions, policy, running, drv_sessions, in_tx,
                   is_unlocked, keyring, pw_removed,
                   config_file, env_vars, calls, tunnels>>

InitQM ==
    /\ sessions = EmptyMap
    /\ policy = [prod_require_confirmation |-> TRUE, prod_block_dangerous_sql |-> FALSE]
    /\ active = QMNew.active
    /\ by_session = QMNew.by_session
    /\ last_by_session = QMNew.last_by_session
    /\ running = {}
    /\ drv_sessions = EmptyMap
    /\ in_tx = EmptyMap
    /\ is_unlocked = TRUE
    /\ keyring = EmptyMap
    /\ pw_removed = FALSE
    /\ config_file = None
    /\ env_vars = NoOverrides
    /\ calls = {}
    /\ tunnels = {}
    /\ last = Idle

NextQM ==
    \/ \E s \in QmSessionIds : QmRegister(s)
    \/ \E s \in QmSessionIds, q \in QmIds : QmRegisterWithId(s, q)
    \/ \E q \in QmIds : QmFinish(q)
    \/ Deliver

SpecQM == InitQM /\ [][NextQM]_vars

\* C9: after register(S) returns Q: contains(Q), session_for(Q) = S and
\* last_for_session(S) = Q; after finish(Q): contains(Q) is false and
\* session_for(Q) is absent - from any state of the manager.
C9_RegisterThenFinish ==
    /\ last.args.cmd = "register" =>
          /\ contains(QM, last.resp.query_id)
          /\ session_for(QM, last.resp.query_id) = Some(last.args.session)
          /\ last_for_session(QM, last.args.session) = Some(last.resp.query_id)
    /\ last.args.cmd = "finish" =>
          /\ ~contains(QM, last.args.query_id)
          /\ session_for(QM, last.args.query_id) = None

\* C9 witness: register returned an id while the other session had a query
\* registered.
C9_Witness ==
    /\ last.args.cmd = "register"
    /\ \E q \in DOMAIN active : active[q] # last.args.session

\* C10: register_with_id(S, Q) with Q registered (for S or another session)
\* fails with the already-registered error and changes none of the three maps.
C10_DuplicateRejected ==
    [][(last'.args.cmd = "register_with_id" /\ last'.args.query_id \in DOMAIN active)
       => /\ last'.resp = [ok |-> FALSE, err |-> "Query ID already registered"]
          /\ UNCHANGED <<active, by_session, last_by_session>>]_vars

\* C10 witness: the rejected id is registered for another session, and the
\* caller's session has a last query of its own.
C10_Witness ==
    /\ last.args.cmd = "register_with_id"
    /\ ~last.resp.ok
    /\ active[last.args.query_id] # last.args.session
    /\ last.args.session \in DOMAIN last_by_session

(***************************************************************************)
(* SpecTx: one relational driver (postgres.rs; mysql.rs has the same       *)
(* structure, with START TRANSACTION for BEGIN and CONNECTION_ID() for     *)
(* pg_backend_pid()), its calls issued one after another                   *)
(***************************************************************************)
\* The pool opens connections on demand, up to max_connections(5); the model
\* tells OpenConns of them apart.
PoolConns == 1..OpenConns

PostgresSessionNew == [transaction_conn |-> None, active_queries |-> EmptyMap]

\* constructors of engine/error.rs
transaction_error(message) == [kind |-> "TransactionError", message |-> message]

connection_failed(message) == [kind |-> "ConnectionFailed", message |-> message]

execution_error(message) == [kind |-> "ExecutionError", message |-> message]

syntax_error(message) == [kind |-> "SyntaxError", message |-> message]

session_not_found(session) == [kind |-> "SessionNotFound", message |-> session]

DrvOk(value) == [ok |-> TRUE, value |-> value]

DrvErr(e) == [ok |-> FALSE, err |-> e]

\* pool.acquire(): a connection that is not checked out, or a failure
Acquire(pg_session) ==
    {None} \cup {Some(c) : c \in PoolConns \ {pg_session.transaction_conn[i] :
                                               i \in DOMAIN pg_session.transaction_conn}}

\* the server-side identifier of a connection
fetch_backend_pid(conn) == conn

SelectLike == {"SELECT", "WITH", "SHOW", "EXPLAIN"}

\* the first keyword of the trimmed, upper-cased statement
ExecVerbs == {"SELECT", "UPDATE"}

ServerOutcomes == {"ok", "syntax error", "error"}

\* begin_transaction without the is_some test
begin_transaction_NoCheck(pg_session, acquired, server_ok) ==
    IF acquired = None
    THEN [result |-> DrvErr(connection_failed("Failed to acquire connection for transaction")),
          trips |-> <<>>, session |-> pg_session]
    ELSE IF ~server_ok
    THEN [result |-> DrvErr(execution_error("Failed to begin transaction")),
          trips |-> <<[conn |-> acquired[1], stmt |-> "BEGIN"]>>, session |-> pg_session]
    ELSE [result |-> DrvOk("unit"),
          trips |-> <<[conn |-> acquired[1], stmt |-> "BEGIN"]>>,
          session |-> [pg_session EXCEPT !.transaction_conn = acquired]]

begin_transaction(pg_session, acquired, server_ok) ==
    IF pg_session.transaction_conn # None
    THEN [result |-> DrvErr(transaction_error("A transaction is already active on this session")),
          trips |-> <<>>, session |-> pg_session]
    ELSE IF acquired = None
    THEN [result |-> DrvErr(connection_failed("Failed to acquire connection for transaction")),
          trips |-> <<>>, session |-> pg_session]
    ELSE IF ~server_ok
    THEN [result |-> DrvErr(execution_error("Failed to begin transaction")),
          trips |-> <<[conn |-> acquired[1], stmt |-> "BEGIN"]>>, session |-> pg_session]
    ELSE [result |-> DrvOk("unit"),
          trips |-> <<[conn |-> acquired[1], stmt |-> "BEGIN"]>>,
          session |-> [pg_session EXCEPT !.transaction_conn = acquired]]

\* commit that puts the connection back when the server rejects COMMIT
commit_KeepsOnError(pg_session, server_ok) ==
    IF pg_session.transaction_conn = None
    THEN [result |-> DrvErr(transaction_error("No active transaction to commit")),
          trips |-> <<>>, session |-> pg_session]
    ELSE [result |-> IF server_ok THEN DrvOk("unit")
                     ELSE DrvErr(execution_error("Failed to commit transaction")),
          trips |-> <<[conn |-> pg_session.transaction_conn[1], stmt |-> "COMMIT"]>>,
          session |-> IF server_ok THEN [pg_session EXCEPT !.transaction_conn = None]
                      ELSE pg_session]

\* commit answering Ok when there is nothing to commit
commit_Lenient(pg_session, server_ok) ==
    IF pg_session.transaction_conn = None
    THEN [result |-> DrvOk("unit"), trips |-> <<>>, session |-> pg_session]
    ELSE [result |-> IF server_ok THEN DrvOk("unit")
                     ELSE DrvErr(execution_error("Failed to commit transaction")),
          trips |-> <<[conn |-> pg_session.transaction_conn[1], stmt |-> "COMMIT"]>>,
          session |-> [pg_session EXCEPT !.transaction_conn = None]]

commit(pg_session, server_ok) ==
    IF pg_session.transaction_conn = None
    THEN [result |-> DrvErr(transaction_error("No active transaction to commit")),
          trips |-> <<>>, session |-> pg_session]
    ELSE [result |-> IF server_ok THEN DrvOk("unit")
                     ELSE DrvErr(execution_error("Failed to commit transaction")),
          trips |-> <<[conn |-> pg_session.transaction_conn[1], stmt |-> "COMMIT"]>>,
          session |-> [pg_session EXCEPT !.transaction_conn = None]]

\* rollback borrowing the connection instead of taking it
rollback_KeepsConn(pg_session, server_ok) ==
    IF pg_session.transaction_conn = None
    THEN [result |-> DrvErr(transaction_error("No active transaction to rollback")),
          trips |-> <<>>, session |-> pg_session]
    ELSE [result |-> IF server_ok THEN DrvOk("unit")
                     ELSE DrvErr(execution_error("Failed to rollback transaction")),
          trips |-> <<[conn |-> pg_session.transaction_conn[1], stmt |-> "ROLLBACK"]>>,
          session |-> pg_session]

rollback(pg_session, server_ok) ==
    IF pg_session.transaction_conn = None
    THEN [result |-> DrvErr(transaction_error("No active transaction to rollback")),
          trips |-> <<>>, session |-> pg_session]
    ELSE [result |-> IF server_ok THEN DrvOk("unit")
                     ELSE DrvErr(execution_error("Failed to rollback transaction")),
          trips |-> <<[conn |-> pg_session.transaction_conn[1], stmt |-> "ROLLBACK"]>>,
          session |-> [pg_session EXCEPT !.transaction_conn = None]]

execute(pg_session, verb, query_id, acquired, pid_ok, outcome) ==
    LET is_select == verb \in SelectLike
        source == IF pg_session.transaction_conn # None THEN "transaction_conn" ELSE "pool"
        conn_opt == IF pg_session.transaction_conn # None
                    THEN pg_session.transaction_conn ELSE acquired
    IN  IF conn_opt = None
        THEN [result |-> DrvErr(connection_failed("pool acquire")), source |-> source,
              trips |-> <<>>, session |-> pg_session]
        ELSE LET conn == conn_opt[1]
                 pid_trip == [conn |-> conn, stmt |-> "SELECT pg_backend_pid()"]
                 inserted == [pg_session EXCEPT !.active_queries =
                                 MapPut(@, query_id, fetch_backend_pid(conn))]
             IN  IF ~pid_ok
                 THEN [result |-> DrvErr(execution_error("pg_backend_pid")),
                       source |-> source, trips |-> <<pid_trip>>, session |-> pg_session]
                 ELSE IF outcome # "ok"
                 THEN [result |-> DrvErr(IF outcome = "syntax error"
                                         THEN syntax_error(outcome)
                                         ELSE execution_error(outcome)),
                       source |-> source,
                       trips |-> <<pid_trip, [conn |-> conn, stmt |-> verb]>>,
                       session |-> inserted]
                 ELSE [result |-> DrvOk(IF is_select THEN "rows" ELSE "affected_rows"),
                       source |-> source,
                       trips |-> <<pid_trip, [conn |-> conn, stmt |-> verb]>>,
                       session |-> [inserted EXCEPT !.active_queries =
                                       MapRemove(@, query_id)]]

\* in_tx is the caller's record of the calls that have returned on a session:
\* began is the connection BEGIN ran on since the last commit or rollback,
\* ended says a commit or rollback has sent its statement for the session.
CallerNew == [began |-> None, ended |-> FALSE]

DrvFrame ==
    UNCHANGED <<sessions, policy, active, by_session, last_by_session, running,
                is_unlocked, keyring, pw_removed,
                   config_file, env_vars, calls, tunnels>>

DrvMissing(cmd, session) ==
    /\ session \notin DOMAIN drv_sessions
    /\ last' = [args |-> [cmd |-> cmd, session |-> session],
                resp |-> [result |-> DrvErr(session_not_found(session)),
                          source |-> "none", trips |-> <<>>]]
    /\ UNCHANGED <<drv_sessions, in_tx,
                   is_unlocked, keyring, pw_removed,
                   config_file, env_vars, calls, tunnels>>

DrvConnect(session, pool_ok) ==
    /\ last = Idle
    /\ session \notin DOMAIN drv_sessions
    /\ IF pool_ok
       THEN /\ drv_sessions' = MapPut(drv_sessions, session, PostgresSessionNew)
            /\ in_tx' = MapPut(in_tx, session, CallerNew)
            /\ last' = [args |-> [cmd |-> "connect", session |-> session],
                        resp |-> [result |-> DrvOk(session), source |-> "none",
                                  trips |-> <<>>]]
       ELSE /\ UNCHANGED <<drv_sessions, in_tx,
                   is_unlocked, keyring, pw_removed,
                   config_file, env_vars, calls, tunnels>>
            /\ last' = [args |-> [cmd |-> "connect", session |-> session],
                        resp |-> [result |-> DrvErr(connection_failed("connect")),
                                  source |-> "none", trips |-> <<>>]]
    /\ DrvFrame

DrvDisconnect(session) ==
    /\ last = Idle
    /\ \/ DrvMissing("disconnect", session)
       \/ /\ session \in DOMAIN drv_sessions
          /\ drv_sessions' = MapRemove(drv_sessions, session)
          /\ in_tx' = MapRemove(in_tx, session)
          /\ last' = [args |-> [cmd |-> "disconnect", session |-> session],
                      resp |-> [result |-> DrvOk("unit"), source |-> "none",
                                trips |-> <<>>]]
    /\ DrvFrame

DrvBeginTransaction(session) ==
    /\ last = Idle
    /\ \/ DrvMissing("begin_transaction", session)
       \/ /\ session \in DOMAIN drv_sessions
          /\ \E acquired \in Acquire(drv_sessions[session]), server_ok \in BOOLEAN :
               \E r \in {begin_transaction(drv_sessions[session], acquired, server_ok)} :
                  /\ drv_sessions' = [drv_sessions EXCEPT ![session] = r.session]
                  /\ in_tx' = IF r.result.ok
                              THEN [in_tx EXCEPT ![session].began = Some(r.trips[1].conn)]
                              ELSE in_tx
                  /\ last' = [args |-> [cmd |-> "begin_transaction", session |-> session],
                              resp |-> [result |-> r.result, source |-> "pool",
                                        trips |-> r.trips]]
    /\ DrvFrame

DrvCommit(session) ==
    /\ last = Idle
    /\ \/ DrvMissing("commit", session)
       \/ /\ session \in DOMAIN drv_sessions
          /\ \E server_ok \in BOOLEAN :
               \E r \in {commit(drv_sessions[session], server_ok)} :
                  /\ drv_sessions' = [drv_sessions EXCEPT ![session] = r.session]
                  /\ in_tx' = [in_tx EXCEPT ![session] =
                                 [began |-> None, ended |-> @.ended \/ r.trips # <<>>]]
                  /\ last' = [args |-> [cmd |-> "commit", session |-> session],
                              resp |-> [result |-> r.result, source |-> "transaction_conn",
                                        trips |-> r.trips]]
    /\ DrvFrame

DrvRollback(session) ==
    /\ last = Idle
    /\ \/ DrvMissing("rollback", session)
       \/ /\ session \in DOMAIN drv_sessions
          /\ \E server_ok \in BOOLEAN :
               \E r \in {rollback(drv_sessions[session], server_ok)} :
                  /\ drv_sessions' = [drv_sessions EXCEPT ![session] = r.session]
                  /\ in_tx' = [in_tx EXCEPT ![session] =
                                 [began |-> None, ended |-> @.ended \/ r.trips # <<>>]]
                  /\ last' = [args |-> [cmd |-> "rollback", session |-> session],
                              resp |-> [result |-> r.result, source |-> "transaction_conn",
                                        trips |-> r.trips]]
    /\ DrvFrame

DrvExecute(session, verb, query_id) ==
    /\ last = Idle
    /\ \/ DrvMissing("execute", session)
       \/ /\ session \in DOMAIN drv_sessions
          /\ \E acquired \in Acquire(drv_sessions[session]), pid_ok \in BOOLEAN,
                outcome \in ServerOutcomes :
               \E r \in {execute(drv_sessions[session], verb, query_id, acquired,
                                 pid_ok, outcome)} :
                  /\ drv_sessions' = [drv_sessions EXCEPT ![session] = r.session]
                  /\ in_tx' = in_tx
                  /\ last' = [args |-> [cmd |-> "execute", session |-> session,
                                        query_id |-> query_id],
                              resp |-> [result |-> r.result, source |-> r.source,
                                        trips |-> r.trips]]
    /\ DrvFrame

InitTx ==
    /\ sessions = EmptyMap
    /\ policy = [prod_require_confirmation |-> TRUE, prod_block_dangerous_sql |-> FALSE]
    /\ active = QMNew.active
    /\ by_session = QMNew.by_session
    /\ last_by_session = QMNew.last_by_session
    /\ running = {}
    /\ drv_sessions = EmptyMap
    /\ in_tx = EmptyMap
    /\ is_unlocked = TRUE
    /\ keyring = EmptyMap
    /\ pw_removed = FALSE
    /\ config_file = None
    /\ env_vars = NoOverrides
    /\ calls = {}
    /\ tunnels = {}
    /\ last = Idle

NextTx ==
    \/ \E s \in SessionIds, pool_ok \in BOOLEAN : DrvConnect(s, pool_ok)
    \/ \E s \in SessionIds : DrvDisconnect(s)
    \/ \E s \in SessionIds : DrvBeginTransaction(s)
    \/ \E s \in SessionIds : DrvCommit(s)
    \/ \E s \in SessionIds : DrvRollback(s)
    \/ \E s \in SessionIds, verb \in ExecVerbs, q \in QueryIds : DrvExecute(s, verb, q)
    \/ Deliver

SpecTx == InitTx /\ [][NextTx]_vars

TxCall(cmds) == last.args.cmd \in cmds /\ last.args.session \in DOMAIN drv_sessions

TxCallNext(cmds) ==
    /\ last'.args.cmd \in cmds
    /\ last'.args.session \in DOMAIN drv_sessions
    /\ last'.args.session \in DOMAIN drv_sessions'

IsTransactionError(result, message) == result = DrvErr(transaction_error(message))

\* C6: once begin_transaction has succeeded on a session, every further
\* begin_transaction on it fails with a transaction error and changes nothing,
\* until commit or rollback is called; a begin_transaction issued when none is
\* outstanding is never refused as a conflict and succeeds when the pool and the
\* server cooperate; a session holds at most one dedicated connection, the one
\* BEGIN ran on.
C6_SingleTransaction ==
    /\ [](\A s \in DOMAIN drv_sessions :
             /\ Len(drv_sessions[s].transaction_conn) <= 1
             /\ drv_sessions[s].transaction_conn = in_tx[s].began)
    /\ [][TxCallNext({"begin_transaction"}) =>
            LET s == last'.args.session
            IN  /\ in_tx[s].began # None =>
                     /\ IsTransactionError(last'.resp.result,
                            "A transaction is already active on this session")
                     /\ drv_sessions'[s] = drv_sessions[s]
                /\ in_tx[s].began = None =>
                     /\ last'.resp.result.ok \/
                           last'.resp.result.err.kind \in {"ConnectionFailed", "ExecutionError"}
                     /\ last'.resp.result.ok <=> drv_sessions'[s].transaction_conn # None]_vars

\* C6 witness: a second begin_transaction is refused on a session that has
\* already been through a commit or rollback and a new begin_transaction.
C6_Witness ==
    /\ TxCall({"begin_transaction"})
    /\ IsTransactionError(last.resp.result, "A transaction is already active on this session")
    /\ in_tx[last.args.session].ended

\* C7: commit or rollback on a session with no active transaction fails with
\* the transaction error "No active transaction to commit/rollback", sends
\* nothing to the server, and leaves the session without a transaction.
C7_NoActiveTransaction ==
    [][(TxCallNext({"commit", "rollback"})
        /\ drv_sessions[last'.args.session].transaction_conn = None)
       => /\ IsTransactionError(last'.resp.result,
                                "No active transaction to " \o last'.args.cmd)
          /\ last'.resp.trips = <<>>
          /\ drv_sessions'[last'.args.session].transaction_conn = None]_vars

\* C7 witness: a commit refused on a session whose earlier transaction a commit
\* or rollback had already ended.
C7_Witness ==
    /\ TxCall({"commit"})
    /\ ~last.resp.result.ok
    /\ last.resp.result.err.kind = "TransactionError"
    /\ last.resp.trips = <<>>
    /\ in_tx[last.args.session].ended

\* C8: an execute issued after begin_transaction returned Ok and before the
\* next commit/rollback sends everything on the connection BEGIN ran on; an
\* execute issued when no such begin is outstanding (in particular after commit
\* or rollback returned) takes its connection from the pool.
C8_ExecuteAffinity ==
    TxCall({"execute"}) =>
        LET s == last.args.session
        IN  IF in_tx[s].began # None
            THEN /\ last.resp.source = "transaction_conn"
                 /\ last.resp.trips # <<>>
                 /\ \A i \in DOMAIN last.resp.trips :
                       last.resp.trips[i].conn = in_tx[s].began[1]
            ELSE last.resp.source = "pool"

\* C8 witness: an execute served from the pool after a commit or rollback
\* returned.
C8_Witness ==
    /\ TxCall({"execute"})
    /\ in_tx[last.args.session].ended
    /\ in_tx[last.args.session].began = None
    /\ last.resp.source = "pool"
    /\ last.resp.result.ok

(***************************************************************************)
(* SpecRun: execute_query and cancel_query calls in flight together on a   *)
(* relational driver.  execute_query is followed from its registration     *)
(* through the await points of the driver's execute to its return;         *)
(* sessions stay connected while calls run.                                *)
(***************************************************************************)
RunQueryIds == QmIds

RunConfigs == {[driver |-> "postgres", read_only |-> FALSE, environment |-> "development"]}

\* "SELECT * FROM users" and "UPDATE users SET name='x' WHERE id=1"
RunQueries == {2, 3}

\* PostgresDriver::cancel: reads active_queries, then sends pg_cancel_backend
\* for each pid on a pool connection.
cancel(pg_session, query_id, acquired, server_ok) ==
    LET act == pg_session.active_queries
        found == query_id = None \/ query_id[1] \in DOMAIN act
        backend_pids == IF query_id # None
                        THEN (IF found THEN {act[query_id[1]]} ELSE {})
                        ELSE {act[q] : q \in DOMAIN act}
    IN  IF ~found
        THEN [result |-> DrvErr(execution_error("Query not found")),
              found |-> FALSE, pids |-> {}, sent |-> FALSE]
        ELSE IF backend_pids = {}
        THEN [result |-> DrvErr(execution_error("No active queries to cancel")),
              found |-> FALSE, pids |-> {}, sent |-> FALSE]
        ELSE IF acquired = None
        THEN [result |-> DrvErr(connection_failed("pool acquire")),
              found |-> TRUE, pids |-> backend_pids, sent |-> FALSE]
        ELSE [result |-> IF server_ok THEN DrvOk("unit")
                         ELSE DrvErr(execution_error("pg_cancel_backend")),
              found |-> TRUE, pids |-> backend_pids, sent |-> TRUE]

\* a call of execute_query between its registration and its return
RunCall(session, query_id, timeout) ==
    [session |-> session, query_id |-> query_id, timeout |-> timeout,
     pc |-> "registered", conn |-> 0, result |-> DrvOk("none"), cancelled |-> "none"]

\* the call holds the session's transaction_conn mutex (tx_guard)
HoldsGuard(r) == r.pc \in {"locked", "inserted"}

GuardFree(session) == \A r \in running : r.session = session => ~HoldsGuard(r)

RunAcquire(session) ==
    {None} \cup {Some(c) : c \in PoolConns \
                    ({r.conn : r \in {x \in running : x.session = session}}
                     \cup {drv_sessions[session].transaction_conn[i] :
                              i \in DOMAIN drv_sessions[session].transaction_conn})}

RunFrame == UNCHANGED <<policy, in_tx,
                   is_unlocked, keyring, pw_removed,
                   config_file, env_vars, calls, tunnels>>

\* SessionManager::connect over PostgresDriver::connect
RunConnect(session_id, config) ==
    /\ last = Idle
    /\ session_id \notin DOMAIN sessions
    /\ sessions' = MapPut(sessions, session_id, config)
    /\ drv_sessions' = MapPut(drv_sessions, session_id, PostgresSessionNew)
    /\ last' = [args |-> [cmd |-> "connect"],
                resp |-> [ret |-> "Ok", success |-> TRUE, session_id |-> Some(session_id)]]
    /\ UNCHANGED <<active, by_session, last_by_session, running>>
    /\ RunFrame

\* execute_query, lines 104-263: gate, registration, driver.execute created
RunExecuteQuery(session, q, query_id, timeout_ms) ==
    LET args == [cmd |-> "execute_query", session |-> session, query |-> q,
                 acknowledged_dangerous |-> None, query_id |-> query_id]
        ro == is_read_only(session)
        drv == get_driver(session)
        prod == is_production(session)
    IN  /\ last = Idle
        /\ UNCHANGED <<sessions, drv_sessions>>
        /\ RunFrame
        /\ IF ~ro.ok \/ ~drv.ok
           THEN /\ last' = [args |-> args,
                            resp |-> Envelope(FALSE, Some(SessionNotFound), None)]
                /\ UNCHANGED <<active, by_session, last_by_session, running>>
           ELSE \E gate \in {PolicyGate(drv.value, ro.value, prod.ok /\ prod.value, policy,
                                        FALSE, Corpus[q])} :
                \E minted \in (IF gate = None /\ query_id = None
                                THEN FreshQueryIds(QM, RunQueryIds) ELSE {0}) :
                \E reg \in {RegisterQuery(gate, QM, session, query_id, minted)} :
                   /\ SetQM(reg.qm)
                   /\ IF reg.result.ok
                      THEN /\ running' = running \cup
                                  {RunCall(session, reg.result.query_id, timeout_ms # None)}
                           /\ last' = [args |-> args,
                                       resp |-> [ret |-> "pending",
                                                 query_id |-> Some(reg.result.query_id)]]
                      ELSE /\ running' = running
                           /\ last' = [args |-> args,
                                       resp |-> IF gate # None
                                                THEN Envelope(FALSE, gate, None)
                                                ELSE [ret |-> "Err",
                                                      err |-> reg.result.err]]

RunStep(r, next) ==
    /\ running' = (running \ {r}) \cup {next}
    /\ last' = [args |-> [cmd |-> "step", session |-> r.session,
                          query_id |-> Some(r.query_id)],
                resp |-> [ret |-> next.pc]]
    /\ UNCHANGED <<sessions, active, by_session, last_by_session>>
    /\ RunFrame

\* execute, lines 349-364: tx_guard taken, connection chosen, backend pid read
RunExecLock(r, acquired, pid_ok) ==
    /\ last = Idle
    /\ r \in running
    /\ r.pc = "registered"
    /\ GuardFree(r.session)
    /\ LET tx == drv_sessions[r.session].transaction_conn
           conn_opt == IF tx # None THEN tx ELSE acquired
       IN  RunStep(r, IF conn_opt = None
                      THEN [r EXCEPT !.pc = "returned",
                                     !.result = DrvErr(connection_failed("pool acquire"))]
                      ELSE IF ~pid_ok
                      THEN [r EXCEPT !.pc = "returned",
                                     !.result = DrvErr(execution_error("pg_backend_pid"))]
                      ELSE [r EXCEPT !.pc = "locked", !.conn = conn_opt[1]])
    /\ UNCHANGED drv_sessions

\* execute: active.insert(query_id, backend_pid)
RunExecInsert(r) ==
    /\ last = Idle
    /\ r \in running
    /\ r.pc = "locked"
    /\ drv_sessions' = [drv_sessions EXCEPT ![r.session].active_queries =
                           MapPut(@, r.query_id, fetch_backend_pid(r.conn))]
    /\ RunStep(r, [r EXCEPT !.pc = "inserted"])

\* execute: the statement's answer arrives; an error leaves through `?`, a
\* result goes on to active.remove(&query_id)
RunExecStatement(r, outcome) ==
    /\ last = Idle
    /\ r \in running
    /\ r.pc = "inserted"
    /\ IF outcome = "ok"
       THEN /\ drv_sessions' = [drv_sessions EXCEPT ![r.session].active_queries =
                                   MapRemove(@, r.query_id)]
            /\ RunStep(r, [r EXCEPT !.pc = "returned", !.conn = 0,
                                    !.result = DrvOk("rows")])
       ELSE /\ UNCHANGED drv_sessions
            /\ RunStep(r, [r EXCEPT !.pc = "returned", !.conn = 0,
                                    !.result = DrvErr(IF outcome = "syntax error"
                                                      THEN syntax_error(outcome)
                                                      ELSE execution_error(outcome))])

\* execute_query, lines 281-304: the envelope is built, the handle released
RunExecFinish(r) ==
    /\ last = Idle
    /\ r \in running
    /\ r.pc = "returned"
    /\ running' = running \ {r}
    /\ SetQM(finish(QM, r.query_id))
    /\ last' = [args |-> [cmd |-> "execute_query_return", session |-> r.session,
                          query_id |-> Some(r.query_id)],
                resp |-> Envelope(r.result.ok,
                                  IF r.result.ok THEN None ELSE Some(r.result.err.kind),
                                  Some(r.query_id)),
                events |-> <<"finish">>]
    /\ UNCHANGED <<sessions, drv_sessions>>
    /\ RunFrame

\* execute_query, lines 265-268: the deadline passes while driver.execute is
\* pending; the future is dropped where it stands
RunTimeoutFire(r) ==
    /\ last = Idle
    /\ r \in running
    /\ r.timeout
    /\ r.pc \in {"registered", "locked", "inserted"}
    /\ UNCHANGED drv_sessions
    /\ RunStep(r, [r EXCEPT !.pc = "timed_out", !.conn = 0])

\* execute_query, line 269: let _ = driver.cancel(session, Some(query_id))
RunTimeoutCancel(r, acquired, server_ok) ==
    /\ last = Idle
    /\ r \in running
    /\ r.pc = "timed_out"
    /\ UNCHANGED drv_sessions
    /\ \E c \in {cancel(drv_sessions[r.session], Some(r.query_id), acquired, server_ok)} :
          RunStep(r, [r EXCEPT !.pc = "cancelled",
                               !.cancelled = IF c.result.ok THEN "Ok"
                                             ELSE c.result.err.message])

\* execute_query, lines 270-276: finish, then the timeout envelope
RunTimeoutFinish(r) ==
    /\ last = Idle
    /\ r \in running
    /\ r.pc = "cancelled"
    /\ running' = running \ {r}
    /\ SetQM(finish(QM, r.query_id))
    /\ last' = [args |-> [cmd |-> "execute_query_timeout", session |-> r.session,
                          query_id |-> Some(r.query_id)],
                resp |-> Envelope(FALSE, Some("Operation timed out after 1000ms"),
                                  Some(r.query_id)),
                events |-> <<"cancel: " \o r.cancelled, "finish">>]
    /\ UNCHANGED <<sessions, drv_sessions>>
    /\ RunFrame

\* cancel_query, lines 313-369
RunCancelQuery(session, query_id, acquired, server_ok) ==
    LET args == [cmd |-> "cancel_query", session |-> session, query_id |-> query_id]
        drv == get_driver(session)
        target == IF query_id # None THEN query_id ELSE last_for_session(QM, session)
    IN  /\ last = Idle
        /\ UNCHANGED <<sessions, active, by_session, last_by_session, running, drv_sessions>>
        /\ RunFrame
        /\ IF ~drv.ok
           THEN last' = [args |-> args, target |-> None, driver |-> "not called",
                         resp |-> Envelope(FALSE, Some(SessionNotFound), None)]
           ELSE IF target = None
           THEN last' = [args |-> args, target |-> None, driver |-> "not called",
                         resp |-> Envelope(FALSE, Some("No active query found"), None)]
           ELSE \E c \in {cancel(drv_sessions[session], target, acquired, server_ok)} :
                   last' = [args |-> args, target |-> target,
                            driver |-> IF c.found THEN "found" ELSE "not found",
                            resp |-> Envelope(c.result.ok,
                                              IF c.result.ok THEN None
                                              ELSE Some(c.result.err.message),
                                              target)]

InitRun ==
    /\ sessions = EmptyMap
    /\ policy = [prod_require_confirmation |-> TRUE, prod_block_dangerous_sql |-> FALSE]
    /\ active = QMNew.active
    /\ by_session = QMNew.by_session
    /\ last_by_session = QMNew.last_by_session
    /\ running = {}
    /\ drv_sessions = EmptyMap
    /\ in_tx = EmptyMap
    /\ is_unlocked = TRUE
    /\ keyring = EmptyMap
    /\ pw_removed = FALSE
    /\ config_file = None
    /\ env_vars = NoOverrides
    /\ calls = {}
    /\ tunnels = {}
    /\ last = Idle

OptRunQueryId == {None} \cup {Some(q) : q \in RunQueryIds}

NextRun ==
    \/ \E s \in SessionIds, c \in RunConfigs : RunConnect(s, c)
    \/ \E s \in SessionIds, q \in RunQueries, id \in OptRunQueryId, t \in OptTimeout :
          RunExecuteQuery(s, q, id, t)
    \/ \E r \in running, pid_ok \in BOOLEAN :
          \E acquired \in RunAcquire(r.session) : RunExecLock(r, acquired, pid_ok)
    \/ \E r \in running : RunExecInsert(r)
    \/ \E r \in running, outcome \in ServerOutcomes : RunExecStatement(r, outcome)
    \/ \E r \in running : RunExecFinish(r)
    \/ \E r \in running : RunTimeoutFire(r)
    \/ \E r \in running, server_ok \in BOOLEAN :
          \E acquired \in RunAcquire(r.session) : RunTimeoutCancel(r, acquired, server_ok)
    \/ \E r \in running : RunTimeoutFinish(r)
    \/ \E s \in SessionIds, id \in OptRunQueryId, server_ok \in BOOLEAN :
          \E acquired \in (IF s \in DOMAIN drv_sessions THEN RunAcquire(s) ELSE {None}) :
             RunCancelQuery(s, id, acquired, server_ok)
    \/ Deliver

SpecRun == InitRun /\ [][NextRun]_vars

CancelCall == last.args.cmd = "cancel_query" /\ last.args.session \in DOMAIN sessions

RegisteredFor(session) == {q \in DOMAIN active : active[q] = session}

\* C11: whenever cancel_query carries a query id Q for session S, the driver's
\* lookup in active_queries finds Q exactly when Q is registered for S in the
\* Query Manager at that moment.
C11_CancelSeesRegistered ==
    (CancelCall /\ last.args.query_id # None) =>
        (last.driver = "found"
            <=> session_for(QM, last.args.query_id[1]) = Some(last.args.session))

\* C12: while the user statement of an execute is with the server its query id
\* is in active_queries, and once execute has returned (result or error) the
\* query id is no longer there.
C12_HandleLifetime ==
    \A r \in running :
        /\ r.pc = "inserted" =>
              r.query_id \in DOMAIN drv_sessions[r.session].active_queries
        /\ r.pc = "returned" =>
              r.query_id \notin DOMAIN drv_sessions[r.session].active_queries

\* C13: when the deadline fires first, execute_query calls the driver's cancel,
\* then finish, then returns the timeout failure; afterwards the query id is
\* neither registered in the Query Manager nor in the session's active_queries.
C13_TimeoutReleasesHandle ==
    last.args.cmd = "execute_query_timeout" =>
        /\ Len(last.events) = 2
        /\ last.events[2] = "finish"
        /\ ~last.resp.success
        /\ last.resp.error = Some("Operation timed out after 1000ms")
        /\ ~contains(QM, last.args.query_id[1])
        /\ last.args.query_id[1] \notin
              DOMAIN drv_sessions[last.args.session].active_queries

\* C14 (what the claim entails without the order of registration): cancel_query
\* without a query id targets a query of S that is registered and not finished,
\* and answers "No active query found", driver not called, only when S has no
\* registered query at all.
C14_CancelLatest ==
    (CancelCall /\ last.args.query_id = None) =>
        /\ last.target # None => last.target[1] \in RegisteredFor(last.args.session)
        /\ last.target = None =>
              /\ last.resp.error = Some("No active query found")
              /\ last.driver = "not called"
              /\ RegisteredFor(last.args.session) = {}

(***************************************************************************)
(* SpecVault: the vault lock (vault/lock.rs), the vault storage            *)
(* (vault/storage.rs) and the commands over them (commands/vault.rs,       *)
(* commands/connection.rs), one command after another                      *)
(***************************************************************************)
Passwords == 1..NumPasswords

ConnIds == 1..NumConnIds

Projects == {"proj"}

\* constructors of engine/error.rs
internal(message) == [kind |-> "Internal", message |-> message]

auth_failed(message) == [kind |-> "AuthFailed", message |-> message]

\* keyring::Entry::new(service, key); every key is a (name, connection id) pair
Entry(service, key) == <<service, key[1], key[2]>>

SERVICE_NAME == "qoredb"

MASTER_PASSWORD_KEY == <<"__master_password_hash__", 0>>

MasterEntry == Entry(SERVICE_NAME, MASTER_PASSWORD_KEY)

service_name(project_id) == "qoredb_" \o project_id

metadata_key(connection_id) == <<"meta_", connection_id>>

credentials_key(connection_id) == <<"creds_", connection_id>>

list_key == <<"__connection_list__", 0>>

\* Argon2: a hash verifies exactly the password it was made from; a stored
\* string that is not a PHC hash does not parse
hash_password(password) == [phc |-> TRUE, password |-> password]

verify_password(password, parsed_hash) == parsed_hash.password = password

\* VaultLock::has_master_password
has_master_password(kr, kr_ok) ==
    IF ~kr_ok THEN DrvErr(internal("Keyring error"))
    ELSE DrvOk(MasterEntry \in DOMAIN kr)

\* VaultLock::auto_unlock_if_no_password, on a new VaultLock
auto_unlock_if_no_password(kr, kr_ok) ==
    LET has == has_master_password(kr, kr_ok)
    IN  has.ok /\ ~has.value

\* VaultLock::setup_master_password
setup_master_password(unlocked, kr, password, kr_ok) ==
    IF ~kr_ok
    THEN [result |-> DrvErr(internal("Failed to store master password")),
          is_unlocked |-> unlocked, keyring |-> kr]
    ELSE [result |-> DrvOk("unit"), is_unlocked |-> TRUE,
          keyring |-> MapPut(kr, MasterEntry, hash_password(password))]

\* unlock that reports a wrong password by locking the vault
unlock_LocksOnFailure(unlocked, kr, password, kr_ok) ==
    IF ~kr_ok \/ MasterEntry \notin DOMAIN kr
    THEN [result |-> DrvErr(internal("No master password set")),
          is_unlocked |-> unlocked, keyring |-> kr]
    ELSE IF ~kr[MasterEntry].phc
    THEN [result |-> DrvErr(internal("Invalid stored hash")),
          is_unlocked |-> unlocked, keyring |-> kr]
    ELSE [result |-> DrvOk(verify_password(password, kr[MasterEntry])),
          is_unlocked |-> verify_password(password, kr[MasterEntry]), keyring |-> kr]

\* VaultLock::unlock
unlock(unlocked, kr, password, kr_ok) ==
    IF ~kr_ok \/ MasterEntry \notin DOMAIN kr
    THEN [result |-> DrvErr(internal("No master password set")),
          is_unlocked |-> unlocked, keyring |-> kr]
    ELSE IF ~kr[MasterEntry].phc
    THEN [result |-> DrvErr(internal("Invalid stored hash")),
          is_unlocked |-> unlocked, keyring |-> kr]
    ELSE IF verify_password(password, kr[MasterEntry])
    THEN [result |-> DrvOk(TRUE), is_unlocked |-> TRUE, keyring |-> kr]
    ELSE [result |-> DrvOk(FALSE), is_unlocked |-> unlocked, keyring |-> kr]

\* VaultLock::lock
lock(unlocked) == FALSE

\* VaultLock::is_locked
is_locked(unlocked) == ~unlocked

\* VaultLock::remove_master_password
remove_master_password(unlocked, kr, password, kr_ok, delete_ok) ==
    LET u == unlock(unlocked, kr, password, kr_ok)
    IN  IF ~u.result.ok THEN u
        ELSE IF ~u.result.value
        THEN [result |-> DrvErr(auth_failed("Invalid password")),
              is_unlocked |-> u.is_unlocked, keyring |-> kr]
        ELSE IF ~delete_ok
        THEN [result |-> DrvErr(internal("Failed to delete")),
              is_unlocked |-> u.is_unlocked, keyring |-> kr]
        ELSE [result |-> DrvOk("unit"), is_unlocked |-> TRUE,
              keyring |-> MapRemove(kr, MasterEntry)]

(***************************************************************************)
(* Saved connections (vault/credentials.rs)                                *)
(***************************************************************************)
\* a panic unwinds out of the call: there is no value to return
Panic(message) == [ok |-> FALSE, panic |-> message]

IsErr(result) == ~result.ok /\ "err" \in DOMAIN result

IsPanic(result) == ~result.ok /\ "panic" \in DOMAIN result

\* Environment::as_str
as_str(environment) == environment

SshHostKeyPolicy(host_key_policy) ==
    CASE host_key_policy = "accept_new" -> Some("AcceptNew")
      [] host_key_policy = "strict" -> Some("Strict")
      [] host_key_policy = "insecure_no_check" -> Some("InsecureNoCheck")
      [] OTHER -> None

\* SavedConnection::to_connection_config
to_connection_config(saved, creds) ==
    LET ssh == saved.ssh_tunnel[1]
        auth == IF ssh.auth_type = "key"
                THEN (IF ssh.key_path = None
                      THEN Panic("key_path must be set when auth_type is 'key'")
                      ELSE DrvOk([type |-> "Key", private_key_path |-> ssh.key_path[1],
                                  passphrase |-> creds.ssh_key_passphrase]))
                ELSE (IF creds.ssh_password = None
                      THEN DrvErr(internal("ssh_password is missing"))
                      ELSE DrvOk([type |-> "Password",
                                  password |-> creds.ssh_password[1]]))
        host_key_policy == SshHostKeyPolicy(ssh.host_key_policy)
        ssh_tunnel ==
            IF saved.ssh_tunnel = None THEN DrvOk(None)
            ELSE IF ~auth.ok THEN auth
            ELSE IF host_key_policy = None
            THEN DrvErr(internal("Invalid ssh host_key_policy"))
            ELSE DrvOk(Some([auth |-> auth.value,
                             host_key_policy |-> host_key_policy[1],
                             known_hosts_path |-> None]))
    IN  IF ~ssh_tunnel.ok THEN ssh_tunnel
        ELSE DrvOk([driver |-> saved.driver,
                    password |-> creds.db_password,
                    environment |-> as_str(saved.environment),
                    read_only |-> saved.read_only,
                    ssh_tunnel |-> ssh_tunnel.value])

(***************************************************************************)
(* Vault storage (vault/storage.rs).  Every operator returns its result,   *)
(* the keyring it leaves and the keyring accesses it made; `fail` names    *)
(* the one keyring access of the call that the platform refuses, if any.   *)
(***************************************************************************)
KeyringFailures == {"none", "meta", "creds", "list_get", "list_set"}

StorageRet(result, kr, io) == [result |-> result, keyring |-> kr, io |-> io]

\* VaultStorage::list_connections
list_connections(kr, project_id, fail) ==
    LET entry == Entry(service_name(project_id), list_key)
        io == <<<<"get", entry>>>>
    IN  IF fail = "list_get"
        THEN StorageRet(DrvErr(internal("Failed to get list")), kr, io)
        ELSE IF entry \notin DOMAIN kr THEN StorageRet(DrvOk(<<>>), kr, io)
        ELSE StorageRet(DrvOk(kr[entry]), kr, io)

\* VaultStorage::save_list
save_list(kr, project_id, list, fail) ==
    LET entry == Entry(service_name(project_id), list_key)
        io == <<<<"set", entry>>>>
    IN  IF fail = "list_set"
        THEN StorageRet(DrvErr(internal("Failed to save list")), kr, io)
        ELSE StorageRet(DrvOk("unit"), MapPut(kr, entry, list), io)

contains_id(list, connection_id) == \E i \in DOMAIN list : list[i] = connection_id

\* list.retain(|id| id != connection_id)
RECURSIVE retain(_, _)
retain(list, connection_id) ==
    IF list = <<>> THEN <<>>
    ELSE IF Head(list) = connection_id THEN retain(Tail(list), connection_id)
    ELSE <<Head(list)>> \o retain(Tail(list), connection_id)

\* add_to_list that pushes without looking
add_to_list_AlwaysPush(kr, project_id, connection_id, fail) ==
    LET l == list_connections(kr, project_id, fail)
        s == save_list(kr, project_id, Append(l.result.value, connection_id), fail)
    IN  IF ~l.result.ok THEN l
        ELSE StorageRet(s.result, s.keyring, l.io \o s.io)

\* VaultStorage::add_to_list
add_to_list(kr, project_id, connection_id, fail) ==
    LET l == list_connections(kr, project_id, fail)
        s == save_list(kr, project_id, Append(l.result.value, connection_id), fail)
    IN  IF ~l.result.ok THEN l
        ELSE IF ~contains_id(l.result.value, connection_id)
        THEN StorageRet(s.result, s.keyring, l.io \o s.io)
        ELSE StorageRet(DrvOk("unit"), kr, l.io)

\* VaultStorage::remove_from_list
remove_from_list(kr, project_id, connection_id, fail) ==
    LET l == list_connections(kr, project_id, fail)
        s == save_list(kr, project_id, retain(l.result.value, connection_id), fail)
    IN  IF ~l.result.ok THEN l
        ELSE StorageRet(s.result, s.keyring, l.io \o s.io)

\* VaultStorage::save_connection
save_connection(kr, connection, credentials, fail) ==
    LET service == service_name(connection.project_id)
        meta_entry == Entry(service, metadata_key(connection.id))
        creds_entry == Entry(service, credentials_key(connection.id))
        kr1 == MapPut(kr, meta_entry, connection)
        kr2 == MapPut(kr1, creds_entry, credentials)
        a == add_to_list(kr2, connection.project_id, connection.id, fail)
    IN  IF fail = "meta"
        THEN StorageRet(DrvErr(internal("Failed to save metadata")), kr,
                        <<<<"set", meta_entry>>>>)
        ELSE IF fail = "creds"
        THEN StorageRet(DrvErr(internal("Failed to save credentials")), kr1,
                        <<<<"set", meta_entry>>, <<"set", creds_entry>>>>)
        ELSE StorageRet(a.result, a.keyring,
                        <<<<"set", meta_entry>>, <<"set", creds_entry>>>> \o a.io)

\* VaultStorage::get_connection
get_connection(kr, project_id, connection_id, fail) ==
    LET entry == Entry(service_name(project_id), metadata_key(connection_id))
        io == <<<<"get", entry>>>>
    IN  IF fail = "meta" \/ entry \notin DOMAIN kr
        THEN StorageRet(DrvErr(internal("Connection not found")), kr, io)
        ELSE StorageRet(DrvOk(kr[entry]), kr, io)

\* VaultStorage::get_credentials
get_credentials(kr, project_id, connection_id, fail) ==
    LET entry == Entry(service_name(project_id), credentials_key(connection_id))
        io == <<<<"get", entry>>>>
    IN  IF fail = "creds" \/ entry \notin DOMAIN kr
        THEN StorageRet(DrvErr(internal("Credentials not found")), kr, io)
        ELSE StorageRet(DrvOk(kr[entry]), kr, io)

\* VaultStorage::delete_connection: a failed delete of an entry is ignored
delete_connection(kr, project_id, connection_id, fail) ==
    LET service == service_name(project_id)
        meta_entry == Entry(service, metadata_key(connection_id))
        creds_entry == Entry(service, credentials_key(connection_id))
        kr1 == IF fail = "meta" THEN kr ELSE MapRemove(kr, meta_entry)
        kr2 == IF fail = "creds" THEN kr1 ELSE MapRemove(kr1, creds_entry)
        r == remove_from_list(kr2, project_id, connection_id, fail)
    IN  StorageRet(r.result, r.keyring,
                   <<<<"delete", meta_entry>>, <<"delete", creds_entry>>>> \o r.io)

\* VaultStorage::list_connections_full: ids whose metadata cannot be read
\* are skipped
list_connections_full(kr, project_id, fail) ==
    LET l == list_connections(kr, project_id, fail)
        ids == l.result.value
        got(i) == get_connection(kr, project_id, ids[i], fail)
        RECURSIVE collect(_)
        collect(i) ==
            IF i > Len(ids) THEN [connections |-> <<>>, io |-> <<>>]
            ELSE LET rest == collect(i + 1)
                 IN  [connections |-> IF got(i).result.ok
                                      THEN <<got(i).result.value>> \o rest.connections
                                      ELSE rest.connections,
                      io |-> got(i).io \o rest.io]
    IN  IF ~l.result.ok THEN l
        ELSE StorageRet(DrvOk(collect(1).connections), kr, l.io \o collect(1).io)

(***************************************************************************)
(* SSH tunnel (engine/ssh_tunnel.rs) and connecting through it             *)
(* (engine/session_manager.rs)                                             *)
(***************************************************************************)
ssh_error(message) == [kind |-> "SshError", message |-> message]

driver_not_found(driver) == [kind |-> "DriverNotFound", message |-> driver]

timeout_error(timeout_ms) == [kind |-> "Timeout", message |-> "timed out"]

connection_error(message) == [kind |-> "ConnectionFailed", message |-> message]

CONNECT_TIMEOUT_MS == 15000

TEST_TIMEOUT_MS == 10000

\* Display of EngineError
to_string(e) == e.kind \o ": " \o e.message

\* build_ssh_command that hands the passphrase-protected key to ssh
build_ssh_command_AnyKey(config) ==
    IF config.auth.type = "Password"
    THEN DrvErr(ssh_error("Password authentication is not supported"))
    ELSE DrvOk([program |-> "ssh", identity |-> config.auth.private_key_path,
                host_key_policy |-> config.host_key_policy])

\* build_ssh_command: the auth match at the end decides
build_ssh_command(config) ==
    IF config.auth.type = "Password"
    THEN DrvErr(ssh_error("Password authentication is not supported"))
    ELSE IF config.auth.passphrase # None /\ config.auth.passphrase[1] # ""
    THEN DrvErr(ssh_error("Key passphrase was provided but is not supported"))
    ELSE DrvOk([program |-> "ssh", identity |-> config.auth.private_key_path,
                host_key_policy |-> config.host_key_policy])

\* what the platform does to one SshTunnel::open and one driver call
HostOutcomes ==
    [bind_ok : BOOLEAN, dir_ok : BOOLEAN, spawn_ok : BOOLEAN,
     ready : {"ready", "exited", "never"}, driver : {"ok", "error", "hang"}]

\* SshTunnel::open: the result and whether an ssh child was spawned
open(config, host) ==
    LET cmd == build_ssh_command(config)
    IN  IF ~host.bind_ok
        THEN [result |-> DrvErr(ssh_error("Failed to bind local port")), spawned |-> FALSE]
        ELSE IF ~host.dir_ok
        THEN [result |-> DrvErr(ssh_error("Failed to create SSH config directory")),
              spawned |-> FALSE]
        ELSE IF ~cmd.ok THEN [result |-> cmd, spawned |-> FALSE]
        ELSE IF ~host.spawn_ok
        THEN [result |-> DrvErr(ssh_error("Failed to spawn SSH process")),
              spawned |-> FALSE]
        ELSE IF host.ready = "exited"
        THEN [result |-> DrvErr(ssh_error("SSH tunnel process exited")), spawned |-> TRUE]
        ELSE IF host.ready = "never"
        THEN [result |-> DrvErr(ssh_error("SSH tunnel did not become ready within 5000ms")),
              spawned |-> TRUE]
        ELSE [result |-> DrvOk(cmd.value), spawned |-> TRUE]

\* DriverRegistry::get
registry_get(driver) == IF driver \in Drivers THEN Some(driver) ELSE None

ConnRet(result, sess, spawned, driver_called) ==
    [result |-> result, sessions |-> sess, spawned |-> spawned,
     driver_called |-> driver_called]

\* SessionManager::connect; session_id is the id the driver mints
connect(sess, config, session_id, host) ==
    LET tunnel == open(config.ssh_tunnel[1], host)
    IN  IF registry_get(config.driver) = None
        THEN ConnRet(DrvErr(driver_not_found(config.driver)), sess, FALSE, FALSE)
        ELSE IF config.ssh_tunnel # None /\ ~tunnel.result.ok
        THEN ConnRet(tunnel.result, sess, tunnel.spawned, FALSE)
        ELSE IF host.driver = "error"
        THEN ConnRet(DrvErr(connection_error("connect failed")), sess,
                     config.ssh_tunnel # None, TRUE)
        ELSE IF host.driver = "hang"
        THEN ConnRet(DrvErr(timeout_error(CONNECT_TIMEOUT_MS)), sess,
                     config.ssh_tunnel # None, TRUE)
        ELSE ConnRet(DrvOk(session_id), MapPut(sess, session_id, config),
                     config.ssh_tunnel # None, TRUE)

\* SessionManager::test_connection: no session is kept
test_connection(sess, config, host) ==
    LET tunnel == open(config.ssh_tunnel[1], host)
    IN  IF registry_get(config.driver) = None
        THEN ConnRet(DrvErr(driver_not_found(config.driver)), sess, FALSE, FALSE)
        ELSE IF config.ssh_tunnel # None /\ ~tunnel.result.ok
        THEN ConnRet(tunnel.result, sess, tunnel.spawned, FALSE)
        ELSE IF host.driver = "error"
        THEN ConnRet(DrvErr(connection_error("connect failed")), sess,
                     config.ssh_tunnel # None, TRUE)
        ELSE IF host.driver = "hang"
        THEN ConnRet(DrvErr(timeout_error(TEST_TIMEOUT_MS)), sess,
                     config.ssh_tunnel # None, TRUE)
        ELSE ConnRet(DrvOk("unit"), sess, config.ssh_tunnel # None, TRUE)

(***************************************************************************)
(* Vault commands (commands/vault.rs) and saved-connection commands        *)
(* (commands/connection.rs)                                                *)
(***************************************************************************)
VaultResponse(success, error) == [ret |-> "Ok", success |-> success, error |-> error]

ConnectionResponse(success, session_id, error) ==
    [ret |-> "Ok", success |-> success, session_id |-> session_id, error |-> error]

VAULT_LOCKED == "Vault is locked"

\* normalize_environment; the strings of the model carry no blanks or capitals
normalize_environment(env) ==
    IF env = "" THEN DrvOk("development")
    ELSE IF env \in {"development", "staging", "production"} THEN DrvOk(env)
    ELSE DrvErr("Invalid environment: " \o env)

\* normalize_config, over the fields a config has here
normalize_config(config) ==
    LET environment == normalize_environment(config.environment)
        auth == config.ssh_tunnel[1].auth
    IN  IF config.driver = "" THEN DrvErr("Driver is required")
        ELSE IF ~environment.ok THEN environment
        ELSE IF config.ssh_tunnel # None /\ auth.type = "Password" /\ auth.password = ""
        THEN DrvErr("SSH password is required")
        ELSE IF config.ssh_tunnel # None /\ auth.type = "Key" /\ auth.private_key_path = ""
        THEN DrvErr("SSH key path is required")
        ELSE DrvOk([config EXCEPT !.environment = environment.value])

\* load_saved_connection_config: the config, an error string, or the panic
\* of to_connection_config, with the keyring accesses made
load_saved_connection_config(kr, project_id, connection_id, fail) ==
    LET saved == get_connection(kr, project_id, connection_id, fail)
        creds == get_credentials(kr, project_id, connection_id, fail)
        config == to_connection_config(saved.result.value, creds.result.value)
    IN  IF ~saved.result.ok
        THEN [result |-> DrvErr(to_string(saved.result.err)), io |-> saved.io]
        ELSE IF saved.result.value.project_id # project_id
        THEN [result |-> DrvErr("Connection project mismatch"), io |-> saved.io]
        ELSE IF ~creds.result.ok
        THEN [result |-> DrvErr(to_string(creds.result.err)), io |-> saved.io \o creds.io]
        ELSE IF IsErr(config)
        THEN [result |-> DrvErr(to_string(config.err)), io |-> saved.io \o creds.io]
        ELSE [result |-> config, io |-> saved.io \o creds.io]

\* load_saved_connection_config(..).and_then(normalize_config)
load_and_normalize(kr, project_id, connection_id, fail) ==
    LET loaded == load_saved_connection_config(kr, project_id, connection_id, fail)
    IN  IF loaded.result.ok
        THEN [result |-> normalize_config(loaded.result.value), io |-> loaded.io]
        ELSE loaded

\* What the frontend sends to save_connection for a connection id: no tunnel,
\* a password tunnel without its password, or a key tunnel.  The command's
\* struct literal names no environment, read_only or host_key_policy; they
\* are taken as development, false and accept_new.
SaveConnectionInput(project_id, id) ==
    [id |-> id, project_id |-> project_id, driver |-> "postgres", password |-> "secret",
     ssh_tunnel |->
        CASE id = 1 -> None
          [] id = 2 -> Some([auth_type |-> "password", password |-> None,
                             key_path |-> None, key_passphrase |-> None])
          [] OTHER -> Some([auth_type |-> "key", password |-> None,
                            key_path |-> Some("id_ed25519"), key_passphrase |-> None])]

\* the SavedConnection and StoredCredentials that save_connection builds
SavedOf(input) ==
    [id |-> input.id, project_id |-> input.project_id, driver |-> input.driver,
     environment |-> "development", read_only |-> FALSE,
     ssh_tunnel |-> IF input.ssh_tunnel = None THEN None
                    ELSE Some([auth_type |-> input.ssh_tunnel[1].auth_type,
                               key_path |-> input.ssh_tunnel[1].key_path,
                               host_key_policy |-> "accept_new"])]

CredentialsOf(input) ==
    [db_password |-> input.password,
     ssh_password |-> IF input.ssh_tunnel = None THEN None
                      ELSE input.ssh_tunnel[1].password,
     ssh_key_passphrase |-> IF input.ssh_tunnel = None THEN None
                            ELSE input.ssh_tunnel[1].key_passphrase]

VaultFrame ==
    UNCHANGED <<policy, active, by_session, last_by_session, running, drv_sessions, in_tx,
                config_file, env_vars, calls, tunnels>>

\* setup_master_password
SetupMasterPassword(password, kr_ok) ==
    /\ last = Idle
    /\ \E r \in {setup_master_password(is_unlocked, keyring, password, kr_ok)} :
          /\ is_unlocked' = r.is_unlocked
          /\ keyring' = r.keyring
          /\ pw_removed' = (pw_removed /\ ~r.result.ok)
          /\ last' = [args |-> [cmd |-> "setup_master_password", password |-> password],
                      result |-> r.result,
                      resp |-> IF r.result.ok THEN VaultResponse(TRUE, None)
                               ELSE VaultResponse(FALSE, Some(to_string(r.result.err)))]
    /\ UNCHANGED sessions
    /\ VaultFrame

\* unlock_vault over VaultLock::unlock
UnlockVault(password, kr_ok) ==
    /\ last = Idle
    /\ \E r \in {unlock(is_unlocked, keyring, password, kr_ok)} :
          /\ is_unlocked' = r.is_unlocked
          /\ last' = [args |-> [cmd |-> "unlock_vault", password |-> password,
                                kr_ok |-> kr_ok],
                      stored |-> MapGet(keyring, MasterEntry),
                      was_unlocked |-> is_unlocked,
                      result |-> r.result,
                      resp |-> IF ~r.result.ok
                               THEN VaultResponse(FALSE, Some(to_string(r.result.err)))
                               ELSE IF r.result.value THEN VaultResponse(TRUE, None)
                               ELSE VaultResponse(FALSE, Some("Invalid password"))]
    /\ UNCHANGED <<sessions, keyring, pw_removed,
                   config_file, env_vars, calls, tunnels>>
    /\ VaultFrame

\* lock_vault over VaultLock::lock
LockVault ==
    /\ last = Idle
    /\ is_unlocked' = lock(is_unlocked)
    /\ last' = [args |-> [cmd |-> "lock_vault"], resp |-> VaultResponse(TRUE, None)]
    /\ UNCHANGED <<sessions, keyring, pw_removed,
                   config_file, env_vars, calls, tunnels>>
    /\ VaultFrame

\* VaultLock::remove_master_password
RemoveMasterPassword(password, kr_ok, delete_ok) ==
    /\ last = Idle
    /\ \E r \in {remove_master_password(is_unlocked, keyring, password, kr_ok, delete_ok)} :
          /\ is_unlocked' = r.is_unlocked
          /\ keyring' = r.keyring
          /\ pw_removed' = (pw_removed \/ r.result.ok)
          /\ last' = [args |-> [cmd |-> "remove_master_password", password |-> password,
                                kr_ok |-> kr_ok],
                      stored |-> MapGet(keyring, MasterEntry),
                      was_unlocked |-> is_unlocked,
                      result |-> r.result,
                      resp |-> r.result]
    /\ UNCHANGED sessions
    /\ VaultFrame

\* save_connection that writes before it looks at the lock
SaveConnection_WriteFirst(project_id, id, fail) ==
    LET input == SaveConnectionInput(project_id, id)
        r == save_connection(keyring, SavedOf(input), CredentialsOf(input), fail)
    IN  /\ last = Idle
        /\ keyring' = r.keyring
        /\ last' = [args |-> [cmd |-> "save_connection", project_id |-> project_id,
                              id |-> id],
                    io |-> r.io,
                    resp |-> IF is_locked(is_unlocked)
                             THEN VaultResponse(FALSE, Some(VAULT_LOCKED))
                             ELSE IF r.result.ok THEN VaultResponse(TRUE, None)
                             ELSE VaultResponse(FALSE, Some(to_string(r.result.err)))]
        /\ UNCHANGED <<sessions, is_unlocked, pw_removed,
                   config_file, env_vars, calls, tunnels>>
        /\ VaultFrame

\* save_connection
SaveConnection(project_id, id, fail) ==
    LET input == SaveConnectionInput(project_id, id)
        r == save_connection(keyring, SavedOf(input), CredentialsOf(input), fail)
        args == [cmd |-> "save_connection", project_id |-> project_id, id |-> id]
    IN  /\ last = Idle
        /\ IF is_locked(is_unlocked)
           THEN /\ keyring' = keyring
                /\ last' = [args |-> args, io |-> <<>>,
                            resp |-> VaultResponse(FALSE, Some(VAULT_LOCKED))]
           ELSE /\ keyring' = r.keyring
                /\ last' = [args |-> args, io |-> r.io,
                            resp |-> IF r.result.ok THEN VaultResponse(TRUE, None)
                                     ELSE VaultResponse(FALSE,
                                                        Some(to_string(r.result.err)))]
        /\ UNCHANGED <<sessions, is_unlocked, pw_removed,
                   config_file, env_vars, calls, tunnels>>
        /\ VaultFrame

\* list_saved_connections: the locked vault is the handler's Err
ListSavedConnections(project_id, fail) ==
    LET r == list_connections_full(keyring, project_id, fail)
        args == [cmd |-> "list_saved_connections", project_id |-> project_id]
    IN  /\ last = Idle
        /\ last' = IF is_locked(is_unlocked)
                   THEN [args |-> args, io |-> <<>>,
                         resp |-> [ret |-> "Err", error |-> Some(VAULT_LOCKED)]]
                   ELSE IF r.result.ok
                   THEN [args |-> args, io |-> r.io,
                         resp |-> [ret |-> "Ok", value |-> r.result.value,
                                   error |-> None]]
                   ELSE [args |-> args, io |-> r.io,
                         resp |-> [ret |-> "Err",
                                   error |-> Some(to_string(r.result.err))]]
        /\ UNCHANGED <<sessions, is_unlocked, keyring, pw_removed,
                   config_file, env_vars, calls, tunnels>>
        /\ VaultFrame

\* delete_saved_connection
DeleteSavedConnection(project_id, connection_id, fail) ==
    LET r == delete_connection(keyring, project_id, connection_id, fail)
        args == [cmd |-> "delete_saved_connection", project_id |-> project_id,
                 id |-> connection_id]
    IN  /\ last = Idle
        /\ IF is_locked(is_unlocked)
           THEN /\ keyring' = keyring
                /\ last' = [args |-> args, io |-> <<>>,
                            resp |-> VaultResponse(FALSE, Some(VAULT_LOCKED))]
           ELSE /\ keyring' = r.keyring
                /\ last' = [args |-> args, io |-> r.io,
                            resp |-> IF r.result.ok THEN VaultResponse(TRUE, None)
                                     ELSE VaultResponse(FALSE,
                                                        Some(to_string(r.result.err)))]
        /\ UNCHANGED <<sessions, is_unlocked, pw_removed,
                   config_file, env_vars, calls, tunnels>>
        /\ VaultFrame

\* test_saved_connection
TestSavedConnection(project_id, connection_id, fail, host) ==
    LET loaded == load_and_normalize(keyring, project_id, connection_id, fail)
        tested == test_connection(sessions, loaded.result.value, host)
        args == [cmd |-> "test_saved_connection", project_id |-> project_id,
                 id |-> connection_id]
    IN  /\ last = Idle
        /\ last' = IF is_locked(is_unlocked)
                   THEN [args |-> args, io |-> <<>>, connect_attempted |-> FALSE,
                         resp |-> ConnectionResponse(FALSE, None, Some(VAULT_LOCKED))]
                   ELSE IF IsPanic(loaded.result)
                   THEN [args |-> args, io |-> loaded.io, connect_attempted |-> FALSE,
                            resp |-> [ret |-> "panic"]]
                   ELSE IF ~loaded.result.ok
                   THEN [args |-> args, io |-> loaded.io, connect_attempted |-> FALSE,
                         resp |-> ConnectionResponse(FALSE, None, Some(loaded.result.err))]
                   ELSE IF tested.result.ok
                   THEN [args |-> args, io |-> loaded.io, connect_attempted |-> TRUE,
                         resp |-> ConnectionResponse(TRUE, None, None)]
                   ELSE [args |-> args, io |-> loaded.io, connect_attempted |-> TRUE,
                         resp |-> ConnectionResponse(FALSE, None,
                                                     Some(to_string(tested.result.err)))]
        /\ UNCHANGED <<sessions, is_unlocked, keyring, pw_removed,
                   config_file, env_vars, calls, tunnels>>
        /\ VaultFrame

\* connect_saved_connection; session_id is the id the driver would mint
ConnectSavedConnection(project_id, connection_id, fail, host, session_id) ==
    LET loaded == load_and_normalize(keyring, project_id, connection_id, fail)
        connected == connect(sessions, loaded.result.value, session_id, host)
        args == [cmd |-> "connect_saved_connection", project_id |-> project_id,
                 id |-> connection_id]
    IN  /\ last = Idle
        /\ session_id \notin DOMAIN sessions
        /\ IF is_locked(is_unlocked)
           THEN /\ sessions' = sessions
                /\ last' = [args |-> args, io |-> <<>>, connect_attempted |-> FALSE,
                            resp |-> ConnectionResponse(FALSE, None, Some(VAULT_LOCKED))]
           ELSE IF IsPanic(loaded.result)
           THEN /\ sessions' = sessions
                /\ last' = [args |-> args, io |-> loaded.io, connect_attempted |-> FALSE,
                            resp |-> [ret |-> "panic"]]
           ELSE IF ~loaded.result.ok
           THEN /\ sessions' = sessions
                /\ last' = [args |-> args, io |-> loaded.io, connect_attempted |-> FALSE,
                            resp |-> ConnectionResponse(FALSE, None,
                                                        Some(loaded.result.err))]
           ELSE /\ sessions' = connected.sessions
                /\ last' = [args |-> args, io |-> loaded.io, connect_attempted |-> TRUE,
                            resp |-> IF connected.result.ok
                                     THEN ConnectionResponse(TRUE, Some(session_id), None)
                                     ELSE ConnectionResponse(
                                              FALSE, None,
                                              Some(to_string(connected.result.err)))]
        /\ UNCHANGED <<is_unlocked, keyring, pw_removed,
                   config_file, env_vars, calls, tunnels>>
        /\ VaultFrame

\* disconnect, so that a session id is free again
VaultDisconnect(session_id) ==
    /\ session_id \in DOMAIN sessions
    /\ Disconnect(session_id)

\* AppState::new: a new VaultLock, unlocked straight away when the keyring
\* can be read and holds no master password
InitVault ==
    /\ sessions = EmptyMap
    /\ policy = [prod_require_confirmation |-> TRUE, prod_block_dangerous_sql |-> FALSE]
    /\ active = QMNew.active
    /\ by_session = QMNew.by_session
    /\ last_by_session = QMNew.last_by_session
    /\ running = {}
    /\ drv_sessions = EmptyMap
    /\ in_tx = EmptyMap
    /\ keyring \in {EmptyMap}
                   \cup {MapPut(EmptyMap, MasterEntry, hash_password(p)) : p \in Passwords}
                   \cup {MapPut(EmptyMap, MasterEntry, [phc |-> FALSE, password |-> 0])}
    /\ \E kr_ok \in BOOLEAN : is_unlocked = auto_unlock_if_no_password(keyring, kr_ok)
    /\ pw_removed = FALSE
    /\ config_file = None
    /\ env_vars = NoOverrides
    /\ calls = {}
    /\ tunnels = {}
    /\ last = Idle

NextVault ==
    \/ \E p \in Passwords, kr_ok \in BOOLEAN : SetupMasterPassword(p, kr_ok)
    \/ \E p \in Passwords, kr_ok \in BOOLEAN : UnlockVault(p, kr_ok)
    \/ LockVault
    \/ \E p \in Passwords, kr_ok \in BOOLEAN, delete_ok \in BOOLEAN :
          RemoveMasterPassword(p, kr_ok, delete_ok)
    \/ \E project \in Projects, id \in ConnIds, fail \in KeyringFailures :
          SaveConnection(project, id, fail)
    \/ \E project \in Projects, fail \in {"none", "list_get", "meta"} :
          ListSavedConnections(project, fail)
    \/ \E project \in Projects, id \in ConnIds, fail \in KeyringFailures :
          DeleteSavedConnection(project, id, fail)
    \/ \E project \in Projects, id \in ConnIds, fail \in {"none", "meta", "creds"},
          host \in HostOutcomes : TestSavedConnection(project, id, fail, host)
    \/ \E project \in Projects, id \in ConnIds, fail \in {"none", "meta", "creds"},
          host \in HostOutcomes, s \in SessionIds :
          ConnectSavedConnection(project, id, fail, host, s)
    \/ \E s \in SessionIds : VaultDisconnect(s)
    \/ Deliver

SpecVault == InitVault /\ [][NextVault]_vars

SavedCommands ==
    {"save_connection", "list_saved_connections", "delete_saved_connection",
     "test_saved_connection", "connect_saved_connection"}

RejectedByLock(resp) == "error" \in DOMAIN resp /\ resp.error = Some(VAULT_LOCKED)

\* C15: called on a locked vault, each of the five saved-connection commands
\* answers "Vault is locked", touches no keyring entry and leaves the keyring
\* and the sessions as they were; unlock_vault that succeeds leaves the vault
\* unlocked, and on an unlocked vault none of the five is answered with
\* "Vault is locked".
C15_LockedVaultRefuses ==
    [][/\ last'.args.cmd \in SavedCommands =>
            /\ is_locked(is_unlocked) =>
                  /\ RejectedByLock(last'.resp)
                  /\ last'.io = <<>>
                  /\ UNCHANGED <<keyring, sessions>>
            /\ ~is_locked(is_unlocked) => ~RejectedByLock(last'.resp)
       /\ (last'.args.cmd = "unlock_vault" /\ last'.resp.success) => is_unlocked'
      ]_vars

\* C15 witness: connect_saved_connection was refused by the lock for a
\* connection whose metadata and credentials are in the keyring.
C15_Witness ==
    /\ last.args.cmd = "connect_saved_connection"
    /\ RejectedByLock(last.resp)
    /\ Entry(service_name(last.args.project_id), metadata_key(last.args.id))
          \in DOMAIN keyring
    /\ Entry(service_name(last.args.project_id), credentials_key(last.args.id))
          \in DOMAIN keyring

HashReadable ==
    last.args.kr_ok /\ last.stored # None /\ last.stored[1].phc

PasswordVerifies == HashReadable /\ last.stored[1].password = last.args.password

\* C16: unlock(p) returns true exactly when p verifies against the stored
\* hash, and then the vault is unlocked; a wrong password returns false
\* ("Invalid password" from unlock_vault) and the lock state is what it was;
\* a hash that cannot be read or parsed returns an error and the lock state
\* is what it was.
C16_UnlockOutcome ==
    last.args.cmd = "unlock_vault" =>
        /\ last.result = DrvOk(TRUE) <=> PasswordVerifies
        /\ PasswordVerifies => is_unlocked /\ last.resp.success
        /\ (HashReadable /\ ~PasswordVerifies) =>
              /\ last.result = DrvOk(FALSE)
              /\ last.resp = VaultResponse(FALSE, Some("Invalid password"))
              /\ is_unlocked = last.was_unlocked
        /\ ~HashReadable =>
              /\ IsErr(last.result)
              /\ ~last.resp.success
              /\ is_unlocked = last.was_unlocked

\* C16 witness: a wrong password on a vault that was unlocked.
C16_Witness ==
    /\ last.args.cmd = "unlock_vault"
    /\ HashReadable
    /\ ~PasswordVerifies
    /\ last.was_unlocked

\* C17: remove_master_password that succeeds has deleted the stored hash and
\* left the vault unlocked; while no master password has been set up since,
\* the vault is unlocked; with a wrong password it fails with AuthFailed and
\* the stored hash is the one that was there.
C17_RemovedStaysUnlocked ==
    /\ (last.args.cmd = "remove_master_password" /\ last.result.ok) =>
          /\ PasswordVerifies
          /\ MasterEntry \notin DOMAIN keyring
          /\ is_unlocked
    /\ pw_removed => is_unlocked
    /\ (last.args.cmd = "remove_master_password" /\ HashReadable /\ ~PasswordVerifies) =>
          /\ IsErr(last.result)
          /\ last.result.err.kind = "AuthFailed"
          /\ MapGet(keyring, MasterEntry) = last.stored

\* the connection list of a project as the keyring holds it
ListOf(kr, project_id) ==
    unwrap_or(MapGet(kr, Entry(service_name(project_id), list_key)), <<>>)

Occurrences(list, connection_id) ==
    Cardinality({i \in DOMAIN list : list[i] = connection_id})

\* C18: no project's connection list ever holds an id twice; a save_connection
\* that succeeds leaves the id in the list exactly once, and when the id was
\* listed before, the list is the one before the call (the id keeps the
\* position of its first save).
C18_ListHasNoDuplicates ==
    /\ [](\A project \in Projects, id \in ConnIds :
              Occurrences(ListOf(keyring, project), id) <= 1)
    /\ [][(last'.args.cmd = "save_connection" /\ last'.resp.success) =>
              /\ Occurrences(ListOf(keyring', last'.args.project_id), last'.args.id) = 1
              /\ Occurrences(ListOf(keyring, last'.args.project_id), last'.args.id) = 1 =>
                    ListOf(keyring', last'.args.project_id)
                        = ListOf(keyring, last'.args.project_id)
          ]_vars

\* C18 witness: a save of the id at the head of a list of two succeeded, so
\* the id was saved, another id was saved after it, and it was saved again.
C18_Witness ==
    /\ last.args.cmd = "save_connection"
    /\ last.resp.success
    /\ Len(ListOf(keyring, last.args.project_id)) = 2
    /\ ListOf(keyring, last.args.project_id)[1] = last.args.id

(***************************************************************************)
(* SpecConn: a saved connection of any shape is in the keyring of an       *)
(* unlocked vault and is converted, tested and connected; the Session      *)
(* Manager is also called with configs of its own                          *)
(***************************************************************************)
\* SshTunnelInfo.auth_type is "password" or "key" (credentials.rs 65); any
\* other string takes the branch of "password"
SshTunnelInfos ==
    [auth_type : {"key", "password"},
     key_path : {None, Some("id_ed25519")},
     host_key_policy : {"accept_new", "strict", "insecure_no_check", "ask"}]

SavedConnections ==
    [id : {1}, project_id : Projects, driver : {"postgres"},
     environment : {"development"}, read_only : {FALSE},
     ssh_tunnel : {None} \cup {Some(ssh) : ssh \in SshTunnelInfos}]

StoredCredentialsSet ==
    [db_password : {"secret"},
     ssh_password : {None, Some("hunter2")},
     ssh_key_passphrase : {None, Some(""), Some("phrase")}]

SshAuths ==
    [type : {"Password"}, password : {"hunter2"}]
        \cup [type : {"Key"}, private_key_path : {"id_ed25519"},
              passphrase : {None, Some(""), Some("phrase")}]

\* "sqlite" is a driver the registry does not hold
ConnConfigs ==
    [driver : {"postgres", "sqlite"}, password : {"secret"},
     environment : {"development"}, read_only : {FALSE},
     ssh_tunnel : {None} \cup {Some([auth |-> auth, host_key_policy |-> "AcceptNew",
                                     known_hosts_path |-> None]) : auth \in SshAuths}]

StoredSaved(kr, project_id, connection_id) ==
    kr[Entry(service_name(project_id), metadata_key(connection_id))]

StoredCreds(kr, project_id, connection_id) ==
    kr[Entry(service_name(project_id), credentials_key(connection_id))]

\* SavedConnection::to_connection_config on the stored connection
ToConnectionConfig(project_id, connection_id) ==
    /\ last = Idle
    /\ last' = [args |-> [cmd |-> "to_connection_config", project_id |-> project_id,
                          id |-> connection_id],
                result |-> to_connection_config(
                               StoredSaved(keyring, project_id, connection_id),
                               StoredCreds(keyring, project_id, connection_id)),
                resp |-> [ret |-> "none"]]
    /\ UNCHANGED <<sessions, is_unlocked, keyring, pw_removed,
                   config_file, env_vars, calls, tunnels>>
    /\ VaultFrame

\* the platform lets SshTunnel::open get as far as build_ssh_command
ReachesBuild(host) == host.bind_ok /\ host.dir_ok

\* the platform refuses nothing
HostFine(host) ==
    ReachesBuild(host) /\ host.spawn_ok /\ host.ready = "ready" /\ host.driver = "ok"

\* SessionManager::connect
SmConnect(config, host, session_id) ==
    /\ last = Idle
    /\ session_id \notin DOMAIN sessions
    /\ \E r \in {connect(sessions, config, session_id, host)} :
          /\ sessions' = r.sessions
          /\ last' = [args |-> [cmd |-> "SessionManager::connect", config |-> config,
                                reaches_build |-> ReachesBuild(host),
                                host_fine |-> HostFine(host)],
                      result |-> r.result, spawned |-> r.spawned,
                      driver_called |-> r.driver_called,
                      resp |-> [ret |-> "none"]]
    /\ UNCHANGED <<is_unlocked, keyring, pw_removed,
                   config_file, env_vars, calls, tunnels>>
    /\ VaultFrame

\* SessionManager::test_connection
SmTestConnection(config, host) ==
    /\ last = Idle
    /\ \E r \in {test_connection(sessions, config, host)} :
          /\ sessions' = r.sessions
          /\ last' = [args |-> [cmd |-> "SessionManager::test_connection",
                                config |-> config,
                                reaches_build |-> ReachesBuild(host),
                                host_fine |-> HostFine(host)],
                      result |-> r.result, spawned |-> r.spawned,
                      driver_called |-> r.driver_called,
                      resp |-> [ret |-> "none"]]
    /\ UNCHANGED <<is_unlocked, keyring, pw_removed,
                   config_file, env_vars, calls, tunnels>>
    /\ VaultFrame

\* the keyring holds one connection, saved by an earlier run; no master
\* password, so the vault is unlocked
InitConn ==
    /\ sessions = EmptyMap
    /\ policy = [prod_require_confirmation |-> TRUE, prod_block_dangerous_sql |-> FALSE]
    /\ active = QMNew.active
    /\ by_session = QMNew.by_session
    /\ last_by_session = QMNew.last_by_session
    /\ running = {}
    /\ drv_sessions = EmptyMap
    /\ in_tx = EmptyMap
    /\ \E saved \in SavedConnections, creds \in StoredCredentialsSet :
          keyring = save_connection(EmptyMap, saved, creds, "none").keyring
    /\ is_unlocked = auto_unlock_if_no_password(keyring, TRUE)
    /\ pw_removed = FALSE
    /\ config_file = None
    /\ env_vars = NoOverrides
    /\ calls = {}
    /\ tunnels = {}
    /\ last = Idle

NextConn ==
    \/ \E project \in Projects : ToConnectionConfig(project, 1)
    \/ \E project \in Projects, fail \in {"none", "meta", "creds"},
          host \in HostOutcomes : TestSavedConnection(project, 1, fail, host)
    \/ \E project \in Projects, fail \in {"none", "meta", "creds"},
          host \in HostOutcomes, s \in SessionIds :
          ConnectSavedConnection(project, 1, fail, host, s)
    \/ \E config \in ConnConfigs, host \in HostOutcomes, s \in SessionIds :
          SmConnect(config, host, s)
    \/ \E config \in ConnConfigs, host \in HostOutcomes : SmTestConnection(config, host)
    \/ \E s \in SessionIds : VaultDisconnect(s)
    \/ Deliver

SpecConn == InitConn /\ [][NextConn]_vars

\* the stored connection of the call that `last` describes, and its credentials
LastSaved == StoredSaved(keyring, last.args.project_id, last.args.id)

LastCreds == StoredCreds(keyring, last.args.project_id, last.args.id)

\* the three cases in which a saved connection has no config
Unconvertible(saved, creds) ==
    /\ saved.ssh_tunnel # None
    /\ \/ saved.ssh_tunnel[1].auth_type = "key" /\ saved.ssh_tunnel[1].key_path = None
       \/ saved.ssh_tunnel[1].auth_type = "password" /\ creds.ssh_password = None
       \/ saved.ssh_tunnel[1].host_key_policy
             \notin {"accept_new", "strict", "insecure_no_check"}

\* C19: to_connection_config returns an error value when the saved connection
\* has key auth and no key path, password auth and no stored ssh password, or
\* a host-key policy that is none of the three; otherwise it returns a config
\* whose password is the stored db password; test_saved_connection and
\* connect_saved_connection answer such a connection with an error response
\* and do not reach the Session Manager.
C19_ConversionValidates ==
    /\ last.args.cmd = "to_connection_config" =>
          /\ Unconvertible(LastSaved, LastCreds) => IsErr(last.result)
          /\ ~Unconvertible(LastSaved, LastCreds) =>
                /\ last.result.ok
                /\ last.result.value.password = LastCreds.db_password
    /\ (/\ last.args.cmd \in {"test_saved_connection", "connect_saved_connection"}
        /\ Unconvertible(LastSaved, LastCreds)) =>
          /\ last.resp.ret = "Ok"
          /\ ~last.resp.success
          /\ last.resp.error # None
          /\ ~last.connect_attempted

RefusedAuth(config) ==
    /\ config.ssh_tunnel # None
    /\ \/ config.ssh_tunnel[1].auth.type = "Password"
       \/ /\ config.ssh_tunnel[1].auth.type = "Key"
          /\ config.ssh_tunnel[1].auth.passphrase \notin {None, Some("")}

AcceptedAuth(config) ==
    /\ config.ssh_tunnel # None
    /\ config.ssh_tunnel[1].auth.type = "Key"
    /\ config.ssh_tunnel[1].auth.passphrase \in {None, Some("")}

BuildRefusals ==
    {ssh_error("Password authentication is not supported"),
     ssh_error("Key passphrase was provided but is not supported")}

SmCalls == {"SessionManager::connect", "SessionManager::test_connection"}

\* C20: connect and test_connection with a tunnel whose auth is password, or
\* key with a non-empty passphrase, return an error, spawn no ssh child, do
\* not call the driver and leave the sessions as they were; for a driver of
\* the registry the error is SshError, and it is the refusal of
\* build_ssh_command whenever SshTunnel::open gets that far.  A key with an
\* absent or empty passphrase is never refused by build_ssh_command, and
\* when the platform refuses nothing the call succeeds through a spawned
\* tunnel.
C20_TunnelAuthRefused ==
    [][last'.args.cmd \in SmCalls =>
          /\ RefusedAuth(last'.args.config) =>
                /\ ~last'.result.ok
                /\ ~last'.spawned
                /\ ~last'.driver_called
                /\ sessions' = sessions
                /\ registry_get(last'.args.config.driver) # None =>
                      /\ last'.result.err.kind = "SshError"
                      /\ last'.args.reaches_build => last'.result.err \in BuildRefusals
          /\ AcceptedAuth(last'.args.config) =>
                /\ last'.result.ok \/ last'.result.err \notin BuildRefusals
                /\ (last'.args.host_fine
                    /\ registry_get(last'.args.config.driver) # None) =>
                      last'.result.ok /\ last'.spawned /\ last'.driver_called
      ]_vars

\* C20 witness: connect was refused for a key with a passphrase while the
\* platform would have let the tunnel and the driver through.
C20_Witness ==
    /\ last.args.cmd = "SessionManager::connect"
    /\ last.args.config.ssh_tunnel # None
    /\ last.args.config.ssh_tunnel[1].auth.type = "Key"
    /\ last.args.config.ssh_tunnel[1].auth.passphrase = Some("phrase")
    /\ last.args.host_fine
    /\ last.result = DrvErr(ssh_error("Key passphrase was provided but is not supported"))

(***************************************************************************)
(* SpecPolicy: get_safety_policy and set_safety_policy (commands/policy.rs *)
(* over policy.rs) called by several frontend callers at once.  A          *)
(* set_safety_policy call writes the file, reads it back and then takes    *)
(* the state mutex to replace the in-memory policy: three steps.           *)
(***************************************************************************)
PolicyCallerIds == 1..PolicyCallers

\* values of an environment variable: unset, a truthy and a non-truthy string
EnvValues == {None, Some("1"), Some("off")}

EnvSettings ==
    [QOREDB_PROD_REQUIRE_CONFIRMATION : EnvValues, QOREDB_PROD_BLOCK_DANGEROUS : EnvValues]

\* env_bool_opt: the strings here carry no blanks or capitals
env_bool_opt(value) ==
    IF value = None THEN None ELSE Some(value[1] \in {"1", "true", "yes", "on"})

\* config.json holding the JSON of a policy, or bytes that are no such JSON
FileOf(p) == [json |-> TRUE, policy |-> p]

\* SafetyPolicy::defaults
defaults == [prod_require_confirmation |-> TRUE, prod_block_dangerous_sql |-> FALSE]

Truncated == [json |-> FALSE, policy |-> defaults]

\* load_from_file
load_from_file(file) ==
    IF file = None \/ ~file[1].json THEN None ELSE Some(file[1].policy)

\* SafetyPolicy::apply_env_overrides
apply_env_overrides(self, environment) ==
    LET confirmation == env_bool_opt(environment.QOREDB_PROD_REQUIRE_CONFIRMATION)
        block == env_bool_opt(environment.QOREDB_PROD_BLOCK_DANGEROUS)
    IN  [prod_require_confirmation |->
             unwrap_or(confirmation, self.prod_require_confirmation),
         prod_block_dangerous_sql |-> unwrap_or(block, self.prod_block_dangerous_sql)]

\* SafetyPolicy::load
load(file, environment) ==
    apply_env_overrides(unwrap_or(load_from_file(file), defaults), environment)

\* what the file system does to one save_to_file: fs::write creates (and
\* truncates) the file and then writes, and either half may fail
WriteOutcomes == {"ok", "create_dir_all fails", "create fails", "write fails"}

\* SafetyPolicy::save_to_file: the result and the file it leaves
save_to_file(self, file, outcome) ==
    CASE outcome = "ok" -> [result |-> DrvOk("unit"), file |-> Some(FileOf(self))]
      [] outcome = "create_dir_all fails" ->
            [result |-> DrvErr("Failed to create config directory"), file |-> file]
      [] outcome = "create fails" -> [result |-> DrvErr("Save failed"), file |-> file]
      [] OTHER -> [result |-> DrvErr("Save failed"), file |-> Some(Truncated)]

SafetyPolicyResponse(success, pol, error) ==
    [ret |-> "Ok", success |-> success, policy |-> pol, error |-> error]

PolicyFrame ==
    UNCHANGED <<sessions, active, by_session, last_by_session, running, drv_sessions,
                in_tx, is_unlocked, keyring, pw_removed, env_vars, tunnels>>

\* get_safety_policy
GetSafetyPolicy ==
    /\ last = Idle
    /\ last' = [args |-> [cmd |-> "get_safety_policy"],
                resp |-> SafetyPolicyResponse(TRUE, Some(policy), None)]
    /\ UNCHANGED <<policy, config_file, calls>>
    /\ PolicyFrame

\* set_safety_policy, line 35: save_to_file; a failure is answered at once
SetPolicySave(caller, p, outcome) ==
    /\ last = Idle
    /\ \A c \in calls : c.caller # caller
    /\ \E r \in {save_to_file(p, config_file, outcome)} :
          /\ config_file' = r.file
          /\ IF r.result.ok
             THEN /\ calls' = calls \cup {[caller |-> caller, cmd |-> "set_safety_policy",
                                          pc |-> "saved", effective |-> p]}
                  /\ last' = last
             ELSE /\ calls' = calls
                  /\ last' = [args |-> [cmd |-> "set_safety_policy", policy |-> p],
                              resp |-> SafetyPolicyResponse(FALSE, None,
                                                            Some(r.result.err))]
    /\ UNCHANGED policy
    /\ PolicyFrame

\* set_safety_policy, line 43: SafetyPolicy::load()
SetPolicyLoad(c) ==
    /\ last = Idle
    /\ c.cmd = "set_safety_policy" /\ c.pc = "saved"
    /\ calls' = (calls \ {c})
                   \cup {[c EXCEPT !.pc = "loaded",
                                   !.effective = load(config_file, env_vars)]}
    /\ UNCHANGED <<policy, config_file, last>>
    /\ PolicyFrame

\* set_safety_policy, lines 44-51: under the state mutex, state.policy = effective
SetPolicyStore(c) ==
    /\ last = Idle
    /\ c.cmd = "set_safety_policy" /\ c.pc = "loaded"
    /\ policy' = c.effective
    /\ calls' = calls \ {c}
    /\ last' = [args |-> [cmd |-> "set_safety_policy"],
                resp |-> SafetyPolicyResponse(TRUE, Some(c.effective), None)]
    /\ UNCHANGED config_file
    /\ PolicyFrame

\* AppState::new: policy = SafetyPolicy::load() over the file and the
\* environment the process starts with
InitPolicy ==
    /\ sessions = EmptyMap
    /\ active = QMNew.active
    /\ by_session = QMNew.by_session
    /\ last_by_session = QMNew.last_by_session
    /\ running = {}
    /\ drv_sessions = EmptyMap
    /\ in_tx = EmptyMap
    /\ is_unlocked = TRUE
    /\ keyring = EmptyMap
    /\ pw_removed = FALSE
    /\ config_file \in {None, Some(Truncated)} \cup {Some(FileOf(p)) : p \in Policies}
    /\ env_vars \in EnvSettings
    /\ policy = load(config_file, env_vars)
    /\ calls = {}
    /\ tunnels = {}
    /\ last = Idle

NextPolicy ==
    \/ GetSafetyPolicy
    \/ \E caller \in PolicyCallerIds, p \in Policies, outcome \in WriteOutcomes :
          SetPolicySave(caller, p, outcome)
    \/ \E c \in calls : SetPolicyLoad(c)
    \/ \E c \in calls : SetPolicyStore(c)
    \/ Deliver

SpecPolicy == InitPolicy /\ [][NextPolicy]_vars

\* C21: whenever no set_safety_policy call is in progress the in-memory policy
\* is SafetyPolicy::load() of the file and the environment as they are, and a
\* set_safety_policy whose save fails leaves the in-memory policy alone.
C21_MemoryEqualsEffective ==
    /\ [](calls = {} => policy = load(config_file, env_vars))
    /\ [][(last'.args.cmd = "set_safety_policy" /\ ~last'.resp.success) =>
              policy' = policy]_vars

(***************************************************************************)
(* SpecSql: analyze_sql (engine/sql_safety.rs) applied to parse trees: one *)
(* statement of any shape, or several statements in a row                  *)
(***************************************************************************)
\* the bodies a query can have without nesting
LeafSetExprs ==
    {[k |-> "Select", into |-> into] : into \in BOOLEAN}
        \cup {[k |-> k] : k \in {"Insert", "Update", "Delete", "Merge", "Values", "Table"}}

\* SetExpr: leaves, set operations and parenthesised queries, nested to depth n
RECURSIVE SetExprs(_)
SetExprs(n) ==
    IF n = 0 THEN LeafSetExprs
    ELSE LET inner == SetExprs(n - 1)
         IN  inner
                \cup {[k |-> "SetOperation", left |-> l, right |-> r] :
                          l \in inner, r \in inner}
                \cup {[k |-> "Query", query |-> [with |-> <<>>, body |-> b]] :
                          b \in inner}

\* the query of a CTE: WITH x AS (SELECT ..), or a data-modifying one
CteQueries ==
    {[with |-> <<>>, body |-> b] :
        b \in {SelectBody, [k |-> "Insert"], [k |-> "Update"], [k |-> "Delete"],
               [k |-> "Merge"]}}

WithLists == UNION {[1..n -> CteQueries] : n \in 0..MaxCtes}

\* Query: the CTEs of its WITH clause and its body
QueryAsts == {[with |-> w, body |-> b] : w \in WithLists, b \in SetExprs(SetExprDepth)}

DropStatements == {"Drop", "DropFunction", "DropDomain", "DropProcedure"}

AlterStatements ==
    {"AlterTable", "AlterSchema", "AlterIndex", "AlterView", "AlterType", "AlterRole",
     "AlterPolicy", "AlterConnector", "AlterSession", "AlterUser"}

ShowStatements ==
    {"ExplainTable", "ShowFunctions", "ShowVariable", "ShowStatus", "ShowVariables",
     "ShowCreate", "ShowColumns", "ShowDatabases", "ShowSchemas", "ShowCharset",
     "ShowObjects", "ShowTables", "ShowViews", "ShowCollation"}

SessionStatements ==
    {"Set", "Use", "StartTransaction", "Commit", "Rollback", "Savepoint",
     "ReleaseSavepoint"}

\* statements that are no query and wrap no statement; CreateTable stands
\* for the kinds neither function names
PlainStatements ==
    {[kind |-> k] : k \in DropStatements \cup {"Truncate"} \cup AlterStatements
                             \cup ShowStatements \cup SessionStatements
                             \cup {"Insert", "Merge", "CreateTable"}}
        \cup {[kind |-> k, selection |-> s] : k \in {"Update", "Delete"}, s \in BOOLEAN}

QueryStatements == {[kind |-> "Query", query |-> q] : q \in QueryAsts}

ExplainStatements ==
    {[kind |-> "Explain", analyze |-> a, statement |-> s] :
        a \in BOOLEAN,
        s \in PlainStatements
                 \cup {[kind |-> "Query", query |-> SelectQuery],
                       [kind |-> "Query",
                        query |-> [with |-> <<>>,
                                   body |-> [k |-> "Select", into |-> TRUE]]]}}

Statements == PlainStatements \cup QueryStatements \cup ExplainStatements

\* the statements that texts of several statements are made of:
\* SELECT 1 / SELECT .. INTO / UPDATE .. WHERE / UPDATE / DROP TABLE / SHOW TABLES
ScriptStatements ==
    {[kind |-> "Query", query |-> SelectQuery],
     [kind |-> "Query",
      query |-> [with |-> <<>>, body |-> [k |-> "Select", into |-> TRUE]]],
     [kind |-> "Update", selection |-> TRUE],
     [kind |-> "Update", selection |-> FALSE],
     [kind |-> "Drop"],
     [kind |-> "ShowTables"]}

Scripts == UNION {[1..n -> ScriptStatements] : n \in 2..MaxStatements}

\* "" and "THIS IS NOT SQL"
BrokenTexts ==
    {[blank |-> TRUE, parses |-> FALSE, statements |-> <<>>,
      mongo_raw |-> FALSE, mongo_json |-> FALSE],
     Corpus[1]}

SqlTexts ==
    {Text(<<s>>) : s \in Statements} \cup {Text(script) : script \in Scripts}
        \cup BrokenTexts

SqlFrame ==
    UNCHANGED <<sessions, policy, active, by_session, last_by_session, running,
                drv_sessions, in_tx, is_unlocked, keyring, pw_removed,
                config_file, env_vars, calls, tunnels>>

\* analyze_sql(driver_id, sql)
AnalyzeSql(driver_id, sql) ==
    /\ last = Idle
    /\ last' = [args |-> [cmd |-> "analyze_sql", driver_id |-> driver_id, sql |-> sql],
                resp |-> analyze_sql(driver_id, sql)]
    /\ SqlFrame

InitSql ==
    /\ sessions = EmptyMap
    /\ policy = defaults
    /\ active = QMNew.active
    /\ by_session = QMNew.by_session
    /\ last_by_session = QMNew.last_by_session
    /\ running = {}
    /\ drv_sessions = EmptyMap
    /\ in_tx = EmptyMap
    /\ is_unlocked = TRUE
    /\ keyring = EmptyMap
    /\ pw_removed = FALSE
    /\ config_file = None
    /\ env_vars = NoOverrides
    /\ calls = {}
    /\ tunnels = {}
    /\ last = Idle

NextSql ==
    \/ /\ last = Idle
       /\ \E driver_id \in {"postgres"}, sql \in SqlTexts : AnalyzeSql(driver_id, sql)
    \/ Deliver

SpecSql == InitSql /\ [][NextSql]_vars

\* the one statement of the text handed to the last analyze_sql call
LastStatement == last.args.sql.statements[1]

SingleStatementCall ==
    /\ last # Idle
    /\ last.args.cmd = "analyze_sql"
    /\ last.args.sql.parses
    /\ Len(last.args.sql.statements) = 1

DmlBodies == {"Insert", "Update", "Delete", "Merge"}

\* expr holds an INSERT, UPDATE, DELETE or MERGE: itself, on either side of
\* a set operation, or in the body or a CTE of a nested query
RECURSIVE HoldsDml(_)
HoldsDml(expr) ==
    CASE expr.k \in DmlBodies -> TRUE
      [] expr.k = "SetOperation" -> HoldsDml(expr.left) \/ HoldsDml(expr.right)
      [] expr.k = "Query" ->
            \/ HoldsDml(expr.query.body)
            \/ \E i \in DOMAIN expr.query.with : HoldsDml(expr.query.with[i].body)
      [] OTHER -> FALSE

QueryHoldsDml(query) ==
    \/ HoldsDml(query.body)
    \/ \E i \in DOMAIN query.with : HoldsDml(query.with[i].body)

\* expr is made of SELECTs without INTO only
RECURSIVE OnlySelects(_)
OnlySelects(expr) ==
    CASE expr.k = "Select" -> ~expr.into
      [] expr.k = "SetOperation" -> OnlySelects(expr.left) /\ OnlySelects(expr.right)
      [] expr.k = "Query" ->
            /\ OnlySelects(expr.query.body)
            /\ \A i \in DOMAIN expr.query.with : OnlySelects(expr.query.with[i].body)
      [] OTHER -> FALSE

QueryOnlySelects(query) ==
    /\ OnlySelects(query.body)
    /\ \A i \in DOMAIN query.with : OnlySelects(query.with[i].body)

\* C22: a query statement holding an INSERT, UPDATE, DELETE or MERGE anywhere
\* in its compound body or in one of its CTEs is classified is_mutation =
\* true; a query made of SELECTs without INTO only, read-only CTEs included,
\* is classified is_mutation = false.
C22_DmlInsideQueryIsMutation ==
    (SingleStatementCall /\ LastStatement.kind = "Query") =>
        /\ last.resp.ok
        /\ QueryHoldsDml(LastStatement.query) => last.resp.is_mutation
        /\ QueryOnlySelects(LastStatement.query) => ~last.resp.is_mutation

\* what C23 says of one statement
RECURSIVE StatedDangerous(_)
StatedDangerous(statement) ==
    \/ statement.kind \in DropStatements \cup {"Truncate"} \cup AlterStatements
    \/ statement.kind \in {"Update", "Delete"} /\ ~statement.selection
    \/ /\ statement.kind = "Explain"
       /\ statement.analyze
       /\ StatedDangerous(statement.statement)

ScriptCall ==
    /\ last # Idle
    /\ last.args.cmd = "analyze_sql"
    /\ last.args.sql.parses
    /\ Len(last.args.sql.statements) > 1

\* the statements of script in the order given by the permutation p
Reordered(script, p) == [i \in DOMAIN script |-> script[p[i]]]

Orders(n) == {p \in [1..n -> 1..n] : \A i, j \in 1..n : p[i] = p[j] => i = j}

\* C24: for a text of several statements is_mutation is true exactly when
\* some statement alone is a mutation and is_dangerous exactly when some
\* statement alone is dangerous; the result is the same for every order of
\* the statements, so a read-only first statement hides nothing after it.
C24_AnyStatementDecides ==
    ScriptCall =>
        LET driver_id == last.args.driver_id
            script == last.args.sql.statements
            alone(i) == analyze_sql(driver_id, Text(<<script[i]>>))
        IN  /\ last.resp.ok
            /\ last.resp.is_mutation = (\E i \in DOMAIN script : alone(i).is_mutation)
            /\ last.resp.is_dangerous = (\E i \in DOMAIN script : alone(i).is_dangerous)
            /\ \A p \in Orders(Len(script)) :
                   analyze_sql(driver_id, Text(Reordered(script, p))) = last.resp

\* SELECT 1; UPDATE t SET .. (no WHERE): a mutation and dangerous
C24_Witness ==
    /\ ScriptCall
    /\ last.args.sql.statements[1] = [kind |-> "Query", query |-> SelectQuery]
    /\ last.args.sql.statements[2] = [kind |-> "Update", selection |-> FALSE]
    /\ last.resp.is_mutation
    /\ last.resp.is_dangerous

(***************************************************************************)
(* SpecMut: the row mutation handlers (commands/mutation.rs) on sessions   *)
(* that connect and disconnect                                             *)
(***************************************************************************)
\* a session id as the front end sends it: the text of a UUID, or not
SessionIdTexts ==
    {[uuid |-> TRUE, id |-> s] : s \in SessionIds} \cup {[uuid |-> FALSE, id |-> 0]}

parse_session_id(id) ==
    IF id.uuid THEN [ok |-> TRUE, value |-> id.id]
    ELSE [ok |-> FALSE, value |-> 0, err |-> "Invalid session ID: invalid character"]

\* Err(message) returned by a handler: the invocation is rejected
HandlerErr(message) == [ret |-> "Err", err |-> message]

MutationResponse(success, result, error) ==
    [ret |-> "Ok", success |-> success, result |-> result, error |-> error]

Tables == {"users"}

\* RowData: no column, or one
RowDatas == {<<>>, <<"name">>}

QueryResultOf(data) == [affected_rows |-> 1, columns |-> Len(data)]

\* what the driver's mutation method answers
MutationOutcomes == {"ok", "constraint violated"}

insert_row(session_id, table, data, outcome) ==
    LET parsed == parse_session_id(session_id)
        session == parsed.value
        ro == is_read_only(session)
        driver == get_driver(session)
    IN  IF ~parsed.ok THEN [resp |-> HandlerErr(parsed.err), driver_call |-> None]
        ELSE IF ~ro.ok THEN [resp |-> HandlerErr(ro.err), driver_call |-> None]
         ELSE IF ro.value
         THEN [resp |-> MutationResponse(FALSE, None, Some(READ_ONLY_BLOCKED)),
               driver_call |-> None]
        ELSE IF ~driver.ok THEN [resp |-> HandlerErr(driver.err), driver_call |-> None]
        ELSE [resp |-> IF outcome = "ok"
                       THEN MutationResponse(TRUE, Some(QueryResultOf(data)), None)
                       ELSE MutationResponse(FALSE, None,
                                Some(to_string(execution_error(outcome)))),
              driver_call |-> Some([method |-> "insert_row", driver |-> driver.value,
                                    session |-> session, table |-> table])]

update_row_NoReadOnlyCheck(session_id, table, data, outcome) ==
    LET parsed == parse_session_id(session_id)
        session == parsed.value
        ro == is_read_only(session)
        driver == get_driver(session)
    IN  IF ~parsed.ok THEN [resp |-> HandlerErr(parsed.err), driver_call |-> None]
        ELSE IF ~ro.ok THEN [resp |-> HandlerErr(ro.err), driver_call |-> None]
        ELSE IF ~driver.ok THEN [resp |-> HandlerErr(driver.err), driver_call |-> None]
        ELSE [resp |-> IF outcome = "ok"
                       THEN MutationResponse(TRUE, Some(QueryResultOf(data)), None)
                       ELSE MutationResponse(FALSE, None,
                                Some(to_string(execution_error(outcome)))),
              driver_call |-> Some([method |-> "update_row", driver |-> driver.value,
                                    session |-> session, table |-> table])]

update_row(session_id, table, data, outcome) ==
    LET parsed == parse_session_id(session_id)
        session == parsed.value
        ro == is_read_only(session)
        driver == get_driver(session)
    IN  IF ~parsed.ok THEN [resp |-> HandlerErr(parsed.err), driver_call |-> None]
        ELSE IF ~ro.ok THEN [resp |-> HandlerErr(ro.err), driver_call |-> None]
         ELSE IF ro.value
         THEN [resp |-> MutationResponse(FALSE, None, Some(READ_ONLY_BLOCKED)),
               driver_call |-> None]
        ELSE IF ~driver.ok THEN [resp |-> HandlerErr(driver.err), driver_call |-> None]
        ELSE [resp |-> IF outcome = "ok"
                       THEN MutationResponse(TRUE, Some(QueryResultOf(data)), None)
                       ELSE MutationResponse(FALSE, None,
                                Some(to_string(execution_error(outcome)))),
              driver_call |-> Some([method |-> "update_row", driver |-> driver.value,
                                    session |-> session, table |-> table])]

delete_row(session_id, table, data, outcome) ==
    LET parsed == parse_session_id(session_id)
        session == parsed.value
        ro == is_read_only(session)
        driver == get_driver(session)
    IN  IF ~parsed.ok THEN [resp |-> HandlerErr(parsed.err), driver_call |-> None]
        ELSE IF ~ro.ok THEN [resp |-> HandlerErr(ro.err), driver_call |-> None]
         ELSE IF ro.value
         THEN [resp |-> MutationResponse(FALSE, None, Some(READ_ONLY_BLOCKED)),
               driver_call |-> None]
        ELSE IF ~driver.ok THEN [resp |-> HandlerErr(driver.err), driver_call |-> None]
        ELSE [resp |-> IF outcome = "ok"
                       THEN MutationResponse(TRUE, Some(QueryResultOf(data)), None)
                       ELSE MutationResponse(FALSE, None,
                                Some(to_string(execution_error(outcome)))),
              driver_call |-> Some([method |-> "delete_row", driver |-> driver.value,
                                    session |-> session, table |-> table])]

MutFrame ==
    UNCHANGED <<sessions, policy, active, by_session, last_by_session, running,
                drv_sessions, in_tx, is_unlocked, keyring, pw_removed,
                config_file, env_vars, calls, tunnels>>

InsertRow(session_id, table, data, outcome) ==
    /\ last = Idle
    /\ \E r \in {insert_row(session_id, table, data, outcome)} :
          last' = [args |-> [cmd |-> "insert_row", session_id |-> session_id,
                             table |-> table, data |-> data],
                   resp |-> r.resp, driver_call |-> r.driver_call]
    /\ MutFrame

UpdateRow(session_id, table, data, outcome) ==
    /\ last = Idle
    /\ \E r \in {update_row(session_id, table, data, outcome)} :
          last' = [args |-> [cmd |-> "update_row", session_id |-> session_id,
                             table |-> table, data |-> data],
                   resp |-> r.resp, driver_call |-> r.driver_call]
    /\ MutFrame

DeleteRow(session_id, table, data, outcome) ==
    /\ last = Idle
    /\ \E r \in {delete_row(session_id, table, data, outcome)} :
          last' = [args |-> [cmd |-> "delete_row", session_id |-> session_id,
                             table |-> table, data |-> data],
                   resp |-> r.resp, driver_call |-> r.driver_call]
    /\ MutFrame

NextMut ==
    \/ \E s \in SessionIds, c \in Configs : Connect(s, c)
    \/ \E s \in SessionIds : Disconnect(s)
    \/ \E id \in SessionIdTexts, table \in Tables, data \in RowDatas,
          outcome \in MutationOutcomes : InsertRow(id, table, data, outcome)
    \/ \E id \in SessionIdTexts, table \in Tables, data \in RowDatas,
          outcome \in MutationOutcomes : UpdateRow(id, table, data, outcome)
    \/ \E id \in SessionIdTexts, table \in Tables, data \in RowDatas,
          outcome \in MutationOutcomes : DeleteRow(id, table, data, outcome)
    \/ Deliver

SpecMut == InitSql /\ [][NextMut]_vars

MutationCommands == {"insert_row", "update_row", "delete_row"}

MutationCall == last # Idle /\ last.args.cmd \in MutationCommands

\* C25: a handler reports every failure inside the response envelope
\* (success = false with an error string) and never as an error return.
C25_FailuresInEnvelope ==
    MutationCall =>
        /\ last.resp.ret = "Ok"
        /\ ~last.resp.success => last.resp.error # None

\* the last call was a row mutation on a connected session that is read-only
MutationOnReadOnly ==
    /\ MutationCall
    /\ parse_session_id(last.args.session_id).ok
    /\ is_read_only(parse_session_id(last.args.session_id).value).ok
    /\ is_read_only(parse_session_id(last.args.session_id).value).value

\* C26: insert_row, update_row and delete_row on a read-only session answer
\* success = false with "Operation blocked: read-only mode" and do not call
\* the driver's mutation method, whatever driver, table and row data.
C26_ReadOnlyRowsBlocked ==
    MutationOnReadOnly =>
        /\ last.resp = MutationResponse(FALSE, None, Some("Operation blocked: read-only mode"))
        /\ last.driver_call = None

\* an update_row on a read-only session was refused without a driver call
C26_Witness ==
    /\ MutationOnReadOnly
    /\ last.args.cmd = "update_row"
    /\ last.resp.ret = "Ok"
    /\ ~last.resp.success
    /\ last.driver_call = None

(***************************************************************************)
(* SpecSaved: test_saved_connection and connect_saved_connection in the    *)
(* two parts the state mutex divides them into (the lock check under the   *)
(* mutex; the vault read and the connection after it is released), between *)
(* the vault commands that hold the mutex to their end                     *)
(***************************************************************************)
SavedCallerIds == 1..SavedCallers

InFlight(caller) == \E c \in calls : c.caller = caller

\* the block under state.lock(): the lock check, then the mutex is released
SavedCheck(caller, cmd, project_id, connection_id) ==
    LET args == [cmd |-> cmd, project_id |-> project_id, id |-> connection_id]
    IN  /\ last = Idle
        /\ ~InFlight(caller)
        /\ IF is_locked(is_unlocked)
           THEN /\ calls' = calls
                /\ last' = [args |-> args, io |-> <<>>, connect_attempted |-> FALSE,
                            resp |-> ConnectionResponse(FALSE, None, Some(VAULT_LOCKED))]
           ELSE /\ calls' = calls \cup {[caller |-> caller, args |-> args]}
                /\ last' = last
        /\ UNCHANGED <<sessions, policy, active, by_session, last_by_session, running,
                       drv_sessions, in_tx, is_unlocked, keyring, pw_removed,
                       config_file, env_vars, tunnels>>

\* test_saved_connection after the mutex: load_saved_connection_config,
\* normalize_config, session_manager.test_connection
TestSavedLoad(call, fail, host) ==
    LET args == call.args
        loaded == load_and_normalize(keyring, args.project_id, args.id, fail)
        tested == test_connection(sessions, loaded.result.value, host)
    IN  /\ last = Idle
        /\ call \in calls
        /\ args.cmd = "test_saved_connection"
        /\ calls' = calls \ {call}
        /\ last' = IF IsPanic(loaded.result)
                   THEN [args |-> args, io |-> loaded.io, connect_attempted |-> FALSE,
                            resp |-> [ret |-> "panic"]]
                   ELSE IF ~loaded.result.ok
                   THEN [args |-> args, io |-> loaded.io, connect_attempted |-> FALSE,
                         resp |-> ConnectionResponse(FALSE, None, Some(loaded.result.err))]
                   ELSE IF tested.result.ok
                   THEN [args |-> args, io |-> loaded.io, connect_attempted |-> TRUE,
                         resp |-> ConnectionResponse(TRUE, None, None)]
                   ELSE [args |-> args, io |-> loaded.io, connect_attempted |-> TRUE,
                         resp |-> ConnectionResponse(FALSE, None,
                                                     Some(to_string(tested.result.err)))]
        /\ UNCHANGED <<sessions, policy, active, by_session, last_by_session, running,
                       drv_sessions, in_tx, is_unlocked, keyring, pw_removed,
                       config_file, env_vars, tunnels>>

\* connect_saved_connection after the mutex; session_id is the id the
\* session manager would mint
ConnectSavedLoad(call, fail, host, session_id) ==
    LET args == call.args
        loaded == load_and_normalize(keyring, args.project_id, args.id, fail)
        connected == connect(sessions, loaded.result.value, session_id, host)
    IN  /\ last = Idle
        /\ call \in calls
        /\ args.cmd = "connect_saved_connection"
        /\ session_id \notin DOMAIN sessions
        /\ calls' = calls \ {call}
        /\ IF IsPanic(loaded.result)
           THEN /\ sessions' = sessions
                /\ last' = [args |-> args, io |-> loaded.io, connect_attempted |-> FALSE,
                            resp |-> [ret |-> "panic"]]
           ELSE IF ~loaded.result.ok
           THEN /\ sessions' = sessions
                /\ last' = [args |-> args, io |-> loaded.io, connect_attempted |-> FALSE,
                            resp |-> ConnectionResponse(FALSE, None,
                                                        Some(loaded.result.err))]
           ELSE /\ sessions' = connected.sessions
                /\ last' = [args |-> args, io |-> loaded.io, connect_attempted |-> TRUE,
                            resp |-> IF connected.result.ok
                                     THEN ConnectionResponse(TRUE, Some(session_id), None)
                                     ELSE ConnectionResponse(
                                              FALSE, None,
                                              Some(to_string(connected.result.err)))]
        /\ UNCHANGED <<policy, active, by_session, last_by_session, running,
                       drv_sessions, in_tx, is_unlocked, keyring, pw_removed,
                       config_file, env_vars, tunnels>>

NextSaved ==
    \/ \E p \in Passwords, kr_ok \in BOOLEAN : UnlockVault(p, kr_ok)
    \/ LockVault
    \/ \E project \in Projects, id \in ConnIds, fail \in KeyringFailures :
          SaveConnection(project, id, fail)
    \/ \E project \in Projects, fail \in {"none", "list_get", "meta"} :
          ListSavedConnections(project, fail)
    \/ \E project \in Projects, id \in ConnIds, fail \in KeyringFailures :
          DeleteSavedConnection(project, id, fail)
    \/ \E caller \in SavedCallerIds,
          cmd \in {"test_saved_connection", "connect_saved_connection"},
          project \in Projects, id \in ConnIds : SavedCheck(caller, cmd, project, id)
    \/ \E call \in calls, fail \in {"none", "meta", "creds"}, host \in HostOutcomes :
          TestSavedLoad(call, fail, host)
    \/ \E call \in calls, fail \in {"none", "meta", "creds"}, host \in HostOutcomes,
          s \in SessionIds : ConnectSavedLoad(call, fail, host, s)
    \/ \E s \in SessionIds : VaultDisconnect(s)
    \/ Deliver

SpecSaved == InitVault /\ [][NextSaved]_vars

\* the step read or wrote vault storage
TouchesStorage == last' # Idle /\ "io" \in DOMAIN last' /\ last'.io # <<>>

\* C27: under every interleaving of lock_vault with test_saved_connection,
\* connect_saved_connection and save / list / delete of saved connections,
\* no read or write of vault storage happens while the vault is locked.
C27_NoStorageAccessWhileLocked ==
    [][TouchesStorage => ~is_locked(is_unlocked)]_vars

(***************************************************************************)
(* SpecQMLocks: register_with_id and finish (engine/query_manager.rs) as   *)
(* the sequences of write-lock sections they are, called concurrently      *)
(***************************************************************************)
QmCallerIds == 1..QmCallers

QmInFlight(caller) == \E c \in calls : c.caller = caller

\* finish keeps its by_session guard while it waits for last_by_session
BySessionHeld == \E c \in calls : c.op = "finish" /\ c.pc = "last_by_session"

QmLocksFrame ==
    UNCHANGED <<sessions, policy, running, drv_sessions, in_tx, is_unlocked, keyring,
                pw_removed, config_file, env_vars, tunnels>>

\* register_with_id, lines 37-43: under active.write()
RegisterActive(caller, session_id, query_id) ==
    /\ last = Idle
    /\ ~QmInFlight(caller)
    /\ IF query_id \in DOMAIN active
       THEN /\ last' = [args |-> [cmd |-> "register_with_id", session |-> session_id,
                                  query_id |-> query_id],
                        resp |-> [ok |-> FALSE, err |-> "Query ID already registered"]]
            /\ UNCHANGED <<active, calls>>
       ELSE /\ active' = MapPut(active, query_id, session_id)
            /\ calls' = calls \cup {[caller |-> caller, op |-> "register_with_id",
                                     session |-> session_id, query_id |-> query_id,
                                     pc |-> "by_session"]}
            /\ last' = last
    /\ UNCHANGED <<by_session, last_by_session>>
    /\ QmLocksFrame

\* register_with_id, lines 45-51: under by_session.write()
RegisterBySession(c) ==
    /\ last = Idle
    /\ c \in calls
    /\ c.op = "register_with_id" /\ c.pc = "by_session"
    /\ ~BySessionHeld
    /\ by_session' = MapPut(by_session, c.session,
                            (IF c.session \in DOMAIN by_session
                             THEN by_session[c.session] ELSE {}) \cup {c.query_id})
    /\ calls' = (calls \ {c}) \cup {[c EXCEPT !.pc = "last_by_session"]}
    /\ UNCHANGED <<active, last_by_session, last>>
    /\ QmLocksFrame

\* register_with_id, lines 53-58: under last_by_session.write(), then Ok
RegisterLast(c) ==
    /\ last = Idle
    /\ c \in calls
    /\ c.op = "register_with_id" /\ c.pc = "last_by_session"
    /\ last_by_session' = MapPut(last_by_session, c.session, c.query_id)
    /\ calls' = calls \ {c}
    /\ last' = [args |-> [cmd |-> "register_with_id", session |-> c.session,
                          query_id |-> c.query_id],
                resp |-> [ok |-> TRUE, query_id |-> c.query_id]]
    /\ UNCHANGED <<active, by_session>>
    /\ QmLocksFrame

\* finish, lines 62-65: active.remove under active.write()
FinishActive(caller, query_id) ==
    /\ last = Idle
    /\ ~QmInFlight(caller)
    /\ IF query_id \notin DOMAIN active
       THEN /\ last' = [args |-> [cmd |-> "finish", query_id |-> query_id],
                        resp |-> [ret |-> "Ok"]]
            /\ UNCHANGED <<active, calls>>
       ELSE /\ active' = MapRemove(active, query_id)
            /\ calls' = calls \cup {[caller |-> caller, op |-> "finish",
                                     session |-> active[query_id],
                                     query_id |-> query_id, pc |-> "by_session"]}
            /\ last' = last
    /\ UNCHANGED <<by_session, last_by_session>>
    /\ QmLocksFrame

\* finish, lines 68-74: under by_session.write(), which stays held
FinishBySession(c) ==
    LET set == IF c.session \in DOMAIN by_session
               THEN by_session[c.session] \ {c.query_id} ELSE {}
    IN  /\ last = Idle
        /\ c \in calls
        /\ c.op = "finish" /\ c.pc = "by_session"
        /\ ~BySessionHeld
        /\ by_session' = IF c.session \notin DOMAIN by_session THEN by_session
                         ELSE IF set = {} THEN MapRemove(by_session, c.session)
                         ELSE MapPut(by_session, c.session, set)
        /\ calls' = (calls \ {c}) \cup {[c EXCEPT !.pc = "last_by_session"]}
        /\ UNCHANGED <<active, last_by_session, last>>
        /\ QmLocksFrame

\* finish, lines 76-80: under last_by_session.write(); both guards dropped
FinishLast(c) ==
    /\ last = Idle
    /\ c \in calls
    /\ c.op = "finish" /\ c.pc = "last_by_session"
    /\ last_by_session' = IF MapGet(last_by_session, c.session) = Some(c.query_id)
                          THEN MapRemove(last_by_session, c.session)
                          ELSE last_by_session
    /\ calls' = calls \ {c}
    /\ last' = [args |-> [cmd |-> "finish", query_id |-> c.query_id],
                resp |-> [ret |-> "Ok"]]
    /\ UNCHANGED <<active, by_session>>
    /\ QmLocksFrame

NextQMLocks ==
    \/ \E caller \in QmCallerIds, s \in QmSessionIds, q \in QmIds :
          RegisterActive(caller, s, q)
    \/ \E c \in calls : RegisterBySession(c)
    \/ \E c \in calls : RegisterLast(c)
    \/ \E caller \in QmCallerIds, q \in QmIds : FinishActive(caller, q)
    \/ \E c \in calls : FinishBySession(c)
    \/ \E c \in calls : FinishLast(c)
    \/ Deliver

SpecQMLocks == InitQM /\ [][NextQMLocks]_vars

\* the three indices describe the same registrations
IndicesAgree ==
    /\ \A q \in QmIds, s \in QmSessionIds :
          (q \in DOMAIN active /\ active[q] = s)
              <=> (s \in DOMAIN by_session /\ q \in by_session[s])
    /\ \A s \in DOMAIN by_session : by_session[s] # {}
    /\ \A s \in DOMAIN last_by_session :
          /\ last_by_session[s] \in DOMAIN active
          /\ active[last_by_session[s]] = s

\* C28: finish removes a query from the three indices as one transaction:
\* under every interleaving of register_with_id and finish calls, once all
\* calls have completed the three indices agree.
C28_IndicesAgreeWhenQuiet == calls = {} => IndicesAgree

(***************************************************************************)
(* SpecSession: SessionManager::connect and ::disconnect                   *)
(* (engine/session_manager.rs) in the steps their awaits divide them into, *)
(* called concurrently, with the ssh children of their tunnels             *)
(***************************************************************************)
SmCallerIds == 1..SmCallers

\* ssh child processes, told apart by a number
Pids == 1..MaxTunnels

KeyTunnel ==
    [auth |-> [type |-> "Key", private_key_path |-> "id_ed25519", passphrase |-> None],
     host_key_policy |-> "AcceptNew", known_hosts_path |-> None]

SessionConfigs ==
    [driver : {"postgres"}, read_only : BOOLEAN, environment : {"production"},
     ssh_tunnel : {None, Some(KeyTunnel)}]

\* what the platform does to SshTunnel::open; the driver's answer is drawn
\* when driver.connect is reached
OpenOutcomes == {host \in HostOutcomes : host.driver = "ok"}

SmInFlight(caller) == \E c \in calls : c.caller = caller

TearingDown(session_id) ==
    \E c \in calls : c.op = "disconnect" /\ c.session = session_id

\* the ids driver.connect can mint: v4 UUIDs, taken to differ from every id
\* the manager holds or is tearing down
FreshSessionIds == {s \in SessionIds : s \notin DOMAIN sessions /\ ~TearingDown(s)}

PidsInUse ==
    tunnels
        \cup {sessions[s].tunnel[1] : s \in {x \in DOMAIN sessions : sessions[x].tunnel # None}}
        \cup {c.tunnel[1] : c \in {x \in calls : x.tunnel # None}}

FreePids == Pids \ PidsInUse

SessionFrame ==
    UNCHANGED <<policy, active, by_session, last_by_session, running, drv_sessions,
                in_tx, is_unlocked, keyring, pw_removed, config_file, env_vars>>

\* SessionManager::session_exists
session_exists(session_id) == session_id \in DOMAIN sessions

\* connect, lines 95-110: registry lookup and SshTunnel::open.  A child
\* that open spawned and that did not become ready in time is not killed:
\* open returns and the Child is dropped (no kill_on_drop).
ConnectOpen(caller, config, host, pid) ==
    LET tunnel == open(config.ssh_tunnel[1], host)
        args == [cmd |-> "connect", ssh |-> config.ssh_tunnel # None]
    IN  /\ last = Idle
        /\ ~SmInFlight(caller)
        /\ pid \in FreePids
        /\ IF registry_get(config.driver) = None
           THEN /\ last' = [args |-> args, tunnel |-> None,
                            resp |-> [ok |-> FALSE, err |-> "DriverNotFound"]]
                /\ UNCHANGED <<calls, tunnels>>
           ELSE IF config.ssh_tunnel = None
           THEN /\ calls' = calls \cup {[caller |-> caller, op |-> "connect",
                                         config |-> config, tunnel |-> None]}
                /\ UNCHANGED <<tunnels, last>>
           ELSE IF ~tunnel.result.ok
           THEN /\ last' = [args |-> args,
                            tunnel |-> IF tunnel.spawned THEN Some(pid) ELSE None,
                            resp |-> [ok |-> FALSE, err |-> tunnel.result.err.kind]]
                /\ tunnels' = IF tunnel.spawned /\ host.ready = "never"
                              THEN tunnels \cup {pid} ELSE tunnels
                /\ calls' = calls
           ELSE /\ calls' = calls \cup {[caller |-> caller, op |-> "connect",
                                         config |-> config, tunnel |-> Some(pid)]}
                /\ tunnels' = tunnels \cup {pid}
                /\ last' = last
        /\ UNCHANGED sessions
        /\ SessionFrame

\* connect, lines 112-140: driver.connect answers, fails, or runs into the
\* timeout; on success the session is inserted, otherwise the tunnel is
\* dropped (Drop: start_kill)
ConnectDriver(c, outcome, session_id) ==
    LET args == [cmd |-> "connect", ssh |-> c.tunnel # None]
    IN  /\ last = Idle
        /\ c \in calls
        /\ c.op = "connect"
        /\ session_id \in FreshSessionIds
        /\ calls' = calls \ {c}
        /\ IF outcome = "ok"
           THEN /\ sessions' = MapPut(sessions, session_id,
                                      [driver |-> c.config.driver,
                                       read_only |-> c.config.read_only,
                                       environment |-> c.config.environment,
                                       tunnel |-> c.tunnel])
                /\ tunnels' = tunnels
                /\ last' = [args |-> args, tunnel |-> c.tunnel,
                            resp |-> [ok |-> TRUE, session_id |-> session_id]]
           ELSE /\ sessions' = sessions
                /\ tunnels' = IF c.tunnel = None THEN tunnels ELSE tunnels \ {c.tunnel[1]}
                /\ last' = [args |-> args, tunnel |-> c.tunnel,
                            resp |-> [ok |-> FALSE,
                                      err |-> IF outcome = "hang" THEN "Timeout"
                                              ELSE "ConnectionFailed"]]
        /\ SessionFrame

\* disconnect that leaves the session in the map while it tears it down
disconnect_remove_Late(sess, session_id) ==
    IF session_id \in DOMAIN sess
    THEN [result |-> DrvOk(sess[session_id]), sessions |-> sess]
    ELSE [result |-> DrvErr(session_not_found("id")), sessions |-> sess]

\* disconnect, lines 146-151: sessions.remove under the write lock
disconnect_remove(sess, session_id) ==
    IF session_id \in DOMAIN sess
    THEN [result |-> DrvOk(sess[session_id]), sessions |-> MapRemove(sess, session_id)]
    ELSE [result |-> DrvErr(session_not_found("id")), sessions |-> sess]

DisconnectRemove(caller, session_id) ==
    /\ last = Idle
    /\ ~SmInFlight(caller)
    /\ \E r \in {disconnect_remove(sessions, session_id)} :
          /\ sessions' = r.sessions
          /\ IF r.result.ok
             THEN /\ calls' = calls \cup {[caller |-> caller, op |-> "disconnect",
                                           session |-> session_id,
                                           tunnel |-> r.result.value.tunnel,
                                           pc |-> "driver"]}
                  /\ last' = last
             ELSE /\ calls' = calls
                  /\ last' = [args |-> [cmd |-> "disconnect", session |-> session_id],
                              driver_called |-> FALSE,
                              resp |-> [ok |-> FALSE, err |-> r.result.err.kind]]
    /\ UNCHANGED tunnels
    /\ SessionFrame

\* disconnect, lines 153-159: driver.disconnect; when it fails the removed
\* session is dropped with its tunnel (Drop: start_kill)
DisconnectDriver(c, driver_ok) ==
    /\ last = Idle
    /\ c \in calls
    /\ c.op = "disconnect" /\ c.pc = "driver"
    /\ IF driver_ok /\ c.tunnel # None
       THEN /\ calls' = (calls \ {c}) \cup {[c EXCEPT !.pc = "tunnel"]}
            /\ UNCHANGED <<tunnels, last>>
       ELSE /\ calls' = calls \ {c}
            /\ tunnels' = IF c.tunnel = None THEN tunnels ELSE tunnels \ {c.tunnel[1]}
            /\ last' = [args |-> [cmd |-> "disconnect", session |-> c.session],
                        driver_called |-> TRUE,
                        resp |-> IF driver_ok THEN [ok |-> TRUE, err |-> ""]
                                 ELSE [ok |-> FALSE, err |-> "ConnectionFailed"]]
    /\ UNCHANGED sessions
    /\ SessionFrame

\* disconnect, lines 161-166: tunnel.close() kills the child
DisconnectTunnel(c) ==
    /\ last = Idle
    /\ c \in calls
    /\ c.op = "disconnect" /\ c.pc = "tunnel"
    /\ calls' = calls \ {c}
    /\ tunnels' = tunnels \ {c.tunnel[1]}
    /\ last' = [args |-> [cmd |-> "disconnect", session |-> c.session],
                driver_called |-> TRUE, resp |-> [ok |-> TRUE, err |-> ""]]
    /\ UNCHANGED sessions
    /\ SessionFrame

\* get_driver, is_read_only, is_production and session_exists of one id
SessionLookup(session_id) ==
    /\ last = Idle
    /\ last' = [args |-> [cmd |-> "lookup", session |-> session_id],
                tearing_down |-> TearingDown(session_id),
                resp |-> [get_driver |-> get_driver(session_id).ok,
                          is_read_only |-> is_read_only(session_id).ok,
                          is_production |-> is_production(session_id).ok,
                          session_exists |-> session_exists(session_id)]]
    /\ UNCHANGED <<sessions, calls, tunnels>>
    /\ SessionFrame

\* an ssh child ends by itself (connection lost, ConnectTimeout)
SshExits(pid) ==
    /\ last = Idle
    /\ pid \in tunnels
    /\ tunnels' = tunnels \ {pid}
    /\ UNCHANGED <<sessions, calls, last>>
    /\ SessionFrame

NextSession ==
    \/ \E caller \in SmCallerIds, config \in SessionConfigs, host \in OpenOutcomes,
          pid \in Pids : ConnectOpen(caller, config, host, pid)
    \/ \E c \in calls, outcome \in {"ok", "error", "hang"}, s \in SessionIds :
          ConnectDriver(c, outcome, s)
    \/ \E caller \in SmCallerIds, s \in SessionIds : DisconnectRemove(caller, s)
    \/ \E c \in calls, driver_ok \in BOOLEAN : DisconnectDriver(c, driver_ok)
    \/ \E c \in calls : DisconnectTunnel(c)
    \/ \E s \in SessionIds : SessionLookup(s)
    \/ \E pid \in Pids : SshExits(pid)
    \/ Deliver

SpecSession == InitSql /\ [][NextSession]_vars

\* C29: disconnect removes the session from the map before the driver's
\* disconnect and the tunnel's close: a lookup (get_driver, is_read_only,
\* is_production, session_exists) made once the teardown has begun reports
\* the session absent, and a disconnect of an id that is not in the map
\* fails with SessionNotFound without a driver call.
C29_RemovedBeforeTeardown ==
    /\ (last.args.cmd = "lookup" /\ last.tearing_down) =>
          /\ ~last.resp.get_driver
          /\ ~last.resp.is_read_only
          /\ ~last.resp.is_production
          /\ ~last.resp.session_exists
    /\ (last.args.cmd = "disconnect" /\ TearingDown(last.args.session)) =>
          /\ last.resp = [ok |-> FALSE, err |-> "SessionNotFound"]
          /\ ~last.driver_called
    /\ \A c \in calls : c.op = "disconnect" => c.session \notin DOMAIN sessions

\* a lookup of a session whose driver has disconnected and whose tunnel is
\* still to be closed
C29_Witness ==
    /\ last.args.cmd = "lookup"
    /\ last.tearing_down
    /\ \E c \in calls : c.op = "disconnect" /\ c.session = last.args.session
                            /\ c.pc = "tunnel" /\ c.tunnel[1] \in tunnels

\* an ssh child that some session in the map owns
OwnedBySession(pid) ==
    \E s \in DOMAIN sessions : sessions[s].tunnel = Some(pid)

\* an ssh child that a connect call in progress holds
HeldByConnect(pid) ==
    \E c \in calls : c.op = "connect" /\ c.tunnel = Some(pid)

\* connect returned the failure of driver.connect (an error or the timeout)
DriverConnectFailed ==
    /\ last.args.cmd = "connect"
    /\ ~last.resp.ok
    /\ last.resp.err \in {"ConnectionFailed", "Timeout"}

\* C30: when connect opened a tunnel and the driver's connect then fails,
\* the tunnel's ssh child is terminated and no session is recorded by the
\* time connect returns; in every state an ssh child started by connect is
\* alive only while its session is in the map or that connect is in
\* progress.
C30_TunnelBoundToSession ==
    /\ (DriverConnectFailed /\ last.tunnel # None) =>
          /\ last.tunnel[1] \notin tunnels
          /\ ~OwnedBySession(last.tunnel[1])
    /\ \A pid \in tunnels : OwnedBySession(pid) \/ HeldByConnect(pid)

\* the last analyze_sql call parsed its text
ParsedCall ==
    /\ last # Idle
    /\ last.args.cmd = "analyze_sql"
    /\ last.resp.ok

\* C40: whatever the classifier marks is_dangerous it also marks
\* is_mutation (one statement, EXPLAIN ANALYZE around one, several
\* statements), so on a read-only SQL session the gate of execute_query
\* answers every dangerous statement that parses with the read-only refusal,
\* whatever the environment, the policy and the acknowledgement are.
C40_DangerousIsMutation ==
    (ParsedCall /\ last.resp.is_dangerous) =>
        /\ last.resp.is_mutation
        /\ \A is_prod \in BOOLEAN, pol \in Policies, acknowledged \in BOOLEAN :
              PolicyGate(last.args.driver_id, TRUE, is_prod, pol, acknowledged,
                         last.args.sql) = Some(READ_ONLY_BLOCKED)

\* EXPLAIN ANALYZE DROP TABLE t was classified dangerous
C40_Witness ==
    /\ ParsedCall
    /\ last.resp.is_dangerous
    /\ last.args.sql.statements[1] = [kind |-> "Explain", analyze |-> TRUE,
                                      statement |-> [kind |-> "Drop"]]

(***************************************************************************)
(* C39: the three keyring entries of a saved connection                    *)
(***************************************************************************)
MetadataExists(kr, project_id, connection_id) ==
    Entry(service_name(project_id), metadata_key(connection_id)) \in DOMAIN kr

CredentialsExist(kr, project_id, connection_id) ==
    Entry(service_name(project_id), credentials_key(connection_id)) \in DOMAIN kr

Listed(kr, project_id, connection_id) ==
    contains_id(ListOf(kr, project_id), connection_id)

\* the last call was a save_connection or delete_saved_connection that
\* returned success
StorageCallSucceeded ==
    /\ last # Idle
    /\ last.args.cmd \in {"save_connection", "delete_saved_connection"}
    /\ last.resp.success

\* C39: in the state a save_connection or delete_connection that completed
\* with success leaves, the id of the call is in the connection list of the
\* project if and only if its metadata entry exists, and if and only if its
\* credentials entry exists.
C39_ListMetadataCredentialsAgree ==
    StorageCallSucceeded =>
        /\ Listed(keyring, last.args.project_id, last.args.id)
              <=> MetadataExists(keyring, last.args.project_id, last.args.id)
        /\ Listed(keyring, last.args.project_id, last.args.id)
              <=> CredentialsExist(keyring, last.args.project_id, last.args.id)

\* connect returned the error of SshTunnel::open
OpenFailed ==
    /\ last # Idle
    /\ last.args.cmd = "connect"
    /\ ~last.resp.ok
    /\ last.resp.err = "SshError"

\* C31: whenever SshTunnel::open returns an error (the child exited before it
\* listened, or the local port accepted no connection before the deadline),
\* no ssh child that this call spawned is still running.
C31_NoChildAfterOpenError ==
    (OpenFailed /\ last.tunnel # None) => last.tunnel[1] \notin tunnels

\* a master password is set (its hash is stored) and the vault is locked
LockedWithPassword ==
    /\ MasterEntry \in DOMAIN keyring
    /\ keyring[MasterEntry].phc
    /\ is_locked(is_unlocked)

\* the step is an unlock or a remove_master_password whose password verifies
\* against the hash stored before it
GivenCorrectPassword ==
    /\ last'.args.cmd \in {"unlock_vault", "remove_master_password"}
    /\ verify_password(last'.args.password, keyring[MasterEntry])

\* C35: once a master password is set and the vault is locked, a step that
\* unlocks the vault or changes or deletes the stored hash is an unlock or a
\* remove_master_password given the password that verifies against that hash.
C35_LockedUntilCorrectPassword ==
    [][(/\ LockedWithPassword
        /\ \/ ~is_locked(is_unlocked')
           \/ MapGet(keyring', MasterEntry) # MapGet(keyring, MasterEntry))
          => GivenCorrectPassword]_vars

\* the server rejected the COMMIT or ROLLBACK the last call sent
ServerRejectedEnd ==
    /\ last # Idle
    /\ TxCall({"commit", "rollback"})
    /\ last.resp.trips # <<>>
    /\ ~last.resp.result.ok

\* the last call was a begin_transaction that failed at pool.acquire or at
\* BEGIN
BeginFailed ==
    /\ last # Idle
    /\ TxCall({"begin_transaction"})
    /\ ~last.resp.result.ok
    /\ last.resp.result.err.kind \in {"ConnectionFailed", "ExecutionError"}

\* begin_transaction on the session would not be refused as a conflict
BeginNotRefused(pg_session) ==
    \A acquired \in Acquire(pg_session), server_ok \in BOOLEAN :
        ~IsTransactionError(begin_transaction(pg_session, acquired, server_ok).result,
                            "A transaction is already active on this session")

\* C37: when the server rejects COMMIT or ROLLBACK, the call returns an
\* execution error and the session is left with no active transaction, so a
\* following begin_transaction is not refused as a conflict; when
\* begin_transaction fails at pool.acquire or at BEGIN, the session is left
\* with no active transaction.
C37_FailedCallsLeaveNoTransaction ==
    /\ ServerRejectedEnd =>
          /\ last.resp.result.err.kind = "ExecutionError"
          /\ drv_sessions[last.args.session].transaction_conn = None
          /\ BeginNotRefused(drv_sessions[last.args.session])
    /\ BeginFailed => drv_sessions[last.args.session].transaction_conn = None

\* C37 witness: the server rejected the COMMIT of a transaction begun after
\* an earlier commit or rollback had sent its statement.
C37_Witness ==
    /\ ServerRejectedEnd
    /\ last.args.cmd = "commit"
    /\ in_tx[last.args.session].ended
    /\ last.resp.trips[1].stmt = "COMMIT"

(***************************************************************************)
(* SpecState: command handlers as tasks around the application-wide state  *)
(* mutex (lib.rs SharedState).  A handler is entered, waits for the mutex, *)
(* does what it does under the guard, and those that reach a driver call   *)
(* stay in flight until the driver answers.  execute_query is followed for *)
(* a statement the policy gate lets through.                               *)
(***************************************************************************)
StateCallerIds == 1..StateCallers

\* the guard of state.lock().await is held by no handler
StateMutexFree == \A c \in calls : ~c.holds

StateFrame ==
    UNCHANGED <<policy, active, by_session, last_by_session, running,
                drv_sessions, in_tx, is_unlocked, keyring, pw_removed,
                config_file, env_vars, tunnels>>

\* the handlers that clone the managers inside a block (query.rs 112-119,
\* 318-321) and those that keep the guard in a local of the whole function
\* (mutation.rs 37, 90, 142)
BlockScoped == {"execute_query", "cancel_query"}

FunctionScoped == {"insert_row", "update_row", "delete_row"}

\* a command is invoked: its task runs up to state.lock().await
StateEnter(caller, cmd, session_id) ==
    /\ last = Idle
    /\ \A c \in calls : c.caller # caller
    /\ calls' = calls \cup {[caller |-> caller, cmd |-> cmd, session_id |-> session_id,
                             pc |-> "lock", holds |-> FALSE, resp |-> Idle.resp]}
    /\ UNCHANGED <<sessions, last>>
    /\ StateFrame

\* execute_query / cancel_query get the mutex, clone the Arcs and drop the
\* guard at the end of the block; then the session is looked up and the
\* driver is called
AcquireBlockScoped(c) ==
    LET parsed == parse_session_id(c.session_id)
        driver == get_driver(parsed.value)
        args == [cmd |-> c.cmd, session_id |-> c.session_id]
    IN  /\ last = Idle
        /\ c \in calls
        /\ c.pc = "lock"
        /\ c.cmd \in BlockScoped
        /\ StateMutexFree
        /\ IF ~parsed.ok
           THEN /\ calls' = calls \ {c}
                /\ last' = [args |-> args, resp |-> HandlerErr(parsed.err)]
           ELSE IF ~driver.ok
           THEN /\ calls' = calls \ {c}
                /\ last' = [args |-> args,
                            resp |-> [ret |-> "Ok", success |-> FALSE,
                                      error |-> Some(driver.err)]]
           ELSE /\ calls' = (calls \ {c}) \cup {[c EXCEPT !.pc = "driver"]}
                /\ last' = last
        /\ UNCHANGED sessions
        /\ StateFrame

\* insert_row / update_row / delete_row get the mutex and keep the guard:
\* the checks and the driver call all run under it
AcquireFunctionScoped(c, outcome) ==
    LET r == IF c.cmd = "insert_row" THEN insert_row(c.session_id, "users", <<>>, outcome)
             ELSE IF c.cmd = "update_row"
             THEN update_row(c.session_id, "users", <<>>, outcome)
             ELSE delete_row(c.session_id, "users", <<>>, outcome)
        args == [cmd |-> c.cmd, session_id |-> c.session_id]
    IN  /\ last = Idle
        /\ c \in calls
        /\ c.pc = "lock"
        /\ c.cmd \in FunctionScoped
        /\ StateMutexFree
        /\ IF r.driver_call = None
           THEN /\ calls' = calls \ {c}
                /\ last' = [args |-> args, resp |-> r.resp]
           ELSE /\ calls' = (calls \ {c}) \cup
                               {[c EXCEPT !.pc = "driver", !.holds = TRUE,
                                          !.resp = r.resp]}
                /\ last' = last
        /\ UNCHANGED sessions
        /\ StateFrame

\* the driver answers: the handler returns and, where the guard is a local
\* of the function, the mutex is released
DriverReturns(c, outcome) ==
    /\ last = Idle
    /\ c \in calls
    /\ c.pc = "driver"
    /\ calls' = calls \ {c}
    /\ last' = [args |-> [cmd |-> c.cmd, session_id |-> c.session_id],
                resp |-> IF c.cmd \in FunctionScoped THEN c.resp
                         ELSE [ret |-> "Ok", success |-> outcome = "ok",
                               error |-> IF outcome = "ok" THEN None
                                         ELSE Some(to_string(execution_error(outcome)))]]
    /\ UNCHANGED sessions
    /\ StateFrame

\* connect and disconnect clone the Session Manager under the mutex
\* (connection.rs 186, 333)
StateConnect(session_id, config) ==
    /\ StateMutexFree
    /\ Connect(session_id, config)

StateDisconnect(session_id) ==
    /\ StateMutexFree
    /\ Disconnect(session_id)

NextState ==
    \/ \E caller \in StateCallerIds, cmd \in BlockScoped \cup FunctionScoped,
          id \in SessionIdTexts : StateEnter(caller, cmd, id)
    \/ \E c \in calls : AcquireBlockScoped(c)
    \/ \E c \in calls, outcome \in MutationOutcomes : AcquireFunctionScoped(c, outcome)
    \/ \E c \in calls, outcome \in MutationOutcomes : DriverReturns(c, outcome)
    \/ \E s \in SessionIds, config \in Configs : StateConnect(s, config)
    \/ \E s \in SessionIds : StateDisconnect(s)
    \/ Deliver

SpecState == InitSql /\ [][NextState]_vars

\* C38: no command handler holds the application-wide state mutex while its
\* driver call is in flight, so a cancel_query (or any other command) that
\* waits for the mutex while an execute_query, insert_row, update_row or
\* delete_row is at its driver call finds the mutex free.
C38_NoDriverCallUnderStateMutex ==
    /\ \A c \in calls : c.pc = "driver" => ~c.holds
    /\ (\E c \in calls : c.pc = "driver") => StateMutexFree

(***************************************************************************)
(* SpecGate: execute_query followed through its three reads of the session *)
(* map (is_read_only, get_driver, is_production: each takes and releases   *)
(* the read lock), with connect, disconnect and set_safety_policy between  *)
(* them.  The call ends here where the statement is blocked or handed to   *)
(* registration and driver.execute.                                        *)
(***************************************************************************)
GateCallerIds == 1..GateCallers

GateFrame ==
    UNCHANGED <<active, by_session, last_by_session, running,
                drv_sessions, in_tx, is_unlocked, keyring, pw_removed,
                config_file, env_vars, tunnels>>

GateArgs(c) ==
    [cmd |-> "execute_query", session |-> c.session, query |-> c.query,
     acknowledged |-> c.acknowledged]

\* execute_query, lines 112-132: the policy is cloned under the state mutex,
\* then is_read_only is read.  environment is what the session map holds for
\* the session at this moment; the handler does not read it here.
GateReadOnly(caller, session, q, acknowledged_dangerous) ==
    LET ro == is_read_only(session)
        c == [caller |-> caller, session |-> session, query |-> q,
              acknowledged |-> unwrap_or(acknowledged_dangerous, FALSE),
              policy |-> policy]
    IN  /\ last = Idle
        /\ \A d \in calls : d.caller # caller
        /\ IF ~ro.ok
           THEN /\ last' = [args |-> GateArgs(c),
                            resp |-> Envelope(FALSE, Some(ro.err), None)]
                /\ calls' = calls
           ELSE /\ calls' = calls \cup
                      {[caller |-> caller, session |-> session, query |-> q,
                        acknowledged |-> c.acknowledged, policy |-> policy,
                        pc |-> "get_driver", read_only |-> ro.value,
                        driver |-> "",
                        environment |-> sessions[session].environment]}
                /\ last' = last
        /\ UNCHANGED <<sessions, policy>>
        /\ GateFrame

\* execute_query, lines 134-144: get_driver
GateGetDriver(c) ==
    LET driver == get_driver(c.session)
    IN  /\ last = Idle
        /\ c \in calls
        /\ c.pc = "get_driver"
        /\ IF ~driver.ok
           THEN /\ last' = [args |-> GateArgs(c),
                            resp |-> Envelope(FALSE, Some(driver.err), None)]
                /\ calls' = calls \ {c}
           ELSE /\ calls' = (calls \ {c}) \cup
                               {[c EXCEPT !.pc = "is_production", !.driver = driver.value]}
                /\ last' = last
        /\ UNCHANGED <<sessions, policy>>
        /\ GateFrame

\* execute_query, lines 147-247: is_production (an Err counts as false) and
\* the gate; a statement the gate lets through goes on to driver.execute
GateDecide(c) ==
    LET prod == is_production(c.session)
        gate == PolicyGate(c.driver, c.read_only, prod.ok /\ prod.value, c.policy,
                           c.acknowledged, Corpus[c.query])
    IN  /\ last = Idle
        /\ c \in calls
        /\ c.pc = "is_production"
        /\ calls' = calls \ {c}
        /\ last' = [args |-> GateArgs(c),
                    driver |-> c.driver, read_only |-> c.read_only,
                    environment |-> c.environment, policy |-> c.policy,
                    resp |-> IF gate # None THEN Envelope(FALSE, gate, None)
                             ELSE [ret |-> "pending", query_id |-> None]]
        /\ UNCHANGED <<sessions, policy>>
        /\ GateFrame

\* connect: the session id is a new UUID, so no call in flight names it
GateConnect(session_id, config) ==
    /\ \A c \in calls : c.session # session_id
    /\ Connect(session_id, config)

NextGate ==
    \/ \E caller \in GateCallerIds, s \in SessionIds, q \in Queries,
          ack \in {None, Some(TRUE)} : GateReadOnly(caller, s, q, ack)
    \/ \E c \in calls : GateGetDriver(c)
    \/ \E c \in calls : GateDecide(c)
    \/ \E s \in SessionIds, config \in Configs : GateConnect(s, config)
    \/ \E s \in SessionIds : Disconnect(s)
    \/ \E effective \in Policies, saved \in BOOLEAN : SetSafetyPolicy(effective, saved)
    \/ Deliver

SpecGate == InitSql /\ [][NextGate]_vars

\* execute_query handed its statement to the driver
PassedToDriver ==
    /\ last # Idle
    /\ last.args.cmd = "execute_query"
    /\ last.resp.ret = "pending"

\* the statement of the last execute_query is dangerous
DangerousStatement ==
    /\ analyze_sql(last.driver, Corpus[last.args.query]).ok
    /\ analyze_sql(last.driver, Corpus[last.args.query]).is_dangerous

\* C36: under every interleaving of execute_query with disconnect of the same
\* session, a dangerous statement is never passed to driver.execute for a
\* production session when the policy would block it.
C36_ProductionGateHoldsUnderDisconnect ==
    (PassedToDriver /\ last.environment = "production" /\ last.driver # "mongodb"
        /\ DangerousStatement) =>
        PolicyGate(last.driver, last.read_only, TRUE, last.policy,
                   last.args.acknowledged, Corpus[last.args.query]) = None

(***************************************************************************)
(* SpecDrv: the calls of the relational driver on one session as tasks of  *)
(* a multi-threaded runtime (engine/drivers/postgres.rs; mysql.rs has the  *)
(* same shape).  Every call keeps the Arc of the session it looked up, so  *)
(* the session record outlives its removal from the driver's map; teardown *)
(* says how far a disconnect of the session has come.  insert_row stands   *)
(* for the three row mutations, which lock and choose their connection the *)
(* same way.                                                               *)
(***************************************************************************)
DrvCallerIds == 1..DrvCallers

\* the one session the calls are about
DrvSessionIds == {1}

DrvOps == {"execute", "insert_row", "begin_transaction", "commit", "rollback",
           "cancel", "disconnect"}

\* row mutations that use the connection without the mutex
LocksTransactionConn_RowsUnlocked ==
    {"execute", "begin_transaction", "commit", "rollback", "disconnect"}

\* the calls that take pg_session.transaction_conn.lock().await
LocksTransactionConn ==
    {"execute", "insert_row", "begin_transaction", "commit", "rollback", "disconnect"}

\* cancel reading active_queries with the transaction_conn mutex taken inside
CancelLocks_WithTransactionConn == {"active_queries", "transaction_conn"}

\* the mutexes of the session that cancel takes
CancelLocks == {"active_queries"}

DrvSessionNew ==
    [transaction_conn |-> None, active_queries |-> EmptyMap, teardown |-> "none"]

\* pool.close() has been called: acquire answers PoolClosed
PoolClosed(pg_session) == pg_session.teardown \in {"closing", "done"}

HoldsTx(c) ==
    /\ c.op \in LocksTransactionConn
    /\ c.pc \in {"tx_held", "running", "begin"}

TxFree == \A c \in calls : ~HoldsTx(c)

HoldsActive(c) == c.op = "cancel" /\ c.pc = "active_held"

ActiveFree == \A c \in calls : ~HoldsActive(c)

DrvTaskFrame ==
    UNCHANGED <<sessions, policy, active, by_session, last_by_session, running,
                in_tx, is_unlocked, keyring, pw_removed, config_file, env_vars,
                tunnels>>

DrvCall(caller, op, session) ==
    [caller |-> caller, op |-> op, session |-> session, pc |-> "start",
     conn |-> FALSE, using_tx |-> FALSE]

DrvReturn(c, result) ==
    /\ calls' = calls \ {c}
    /\ last' = [args |-> [cmd |-> c.op, session |-> c.session, caller |-> c.caller],
                resp |-> [ok |-> result.ok,
                          err |-> IF result.ok THEN "" ELSE result.err.kind]]

DrvGoto(c, next) ==
    /\ calls' = (calls \ {c}) \cup {next}
    /\ last' = last

\* PostgresDriver::connect, lines 240-257
DrvOpen(session) ==
    /\ last = Idle
    /\ session \notin DOMAIN drv_sessions
    /\ drv_sessions' = MapPut(drv_sessions, session, DrvSessionNew)
    /\ last' = [args |-> [cmd |-> "connect", session |-> session, caller |-> 0],
                resp |-> [ok |-> TRUE, err |-> ""]]
    /\ UNCHANGED calls
    /\ DrvTaskFrame

\* get_session (74-80); disconnect removes the session from the map instead
\* (260-265)
DrvEnter(caller, op, session) ==
    /\ last = Idle
    /\ \A c \in calls : c.caller # caller
    /\ IF session \notin DOMAIN drv_sessions
       THEN /\ DrvReturn(DrvCall(caller, op, session),
                         DrvErr(session_not_found(session)))
            /\ UNCHANGED drv_sessions
       ELSE IF drv_sessions[session].teardown # "none"
       THEN /\ DrvReturn(DrvCall(caller, op, session),
                         DrvErr(session_not_found(session)))
            /\ UNCHANGED drv_sessions
       ELSE /\ calls' = calls \cup {DrvCall(caller, op, session)}
            /\ last' = last
            /\ drv_sessions' = IF op = "disconnect"
                               THEN [drv_sessions EXCEPT ![session].teardown = "removed"]
                               ELSE drv_sessions
    /\ DrvTaskFrame

\* transaction_conn.lock().await and what the call does first under it:
\* execute (358-364, 423-428) and the row mutations (760-765) choose the
\* connection, begin_transaction tests the slot (645-652), commit and
\* rollback take the connection out (676-683, 698-705), disconnect takes it
\* and drops the guard (267-270)
DrvLockTx(c, acquire_ok) ==
    LET pg == drv_sessions[c.session]
    IN  /\ last = Idle
        /\ c \in calls
        /\ c.pc = "start"
        /\ c.op # "cancel"
        /\ c.op \in LocksTransactionConn => TxFree
        /\ DrvTaskFrame
        /\ IF c.op \in {"execute", "insert_row"}
           THEN /\ UNCHANGED drv_sessions
                /\ IF pg.transaction_conn # None
                   THEN DrvGoto(c, [c EXCEPT !.pc = "tx_held", !.using_tx = TRUE])
                   ELSE IF PoolClosed(pg) \/ ~acquire_ok
                   THEN DrvReturn(c, DrvErr(connection_failed("pool acquire")))
                   ELSE DrvGoto(c, [c EXCEPT !.pc = "tx_held", !.conn = TRUE])
           ELSE IF c.op = "begin_transaction"
           THEN /\ UNCHANGED drv_sessions
                /\ IF pg.transaction_conn # None
                   THEN DrvReturn(c, begin_transaction(pg, None, TRUE).result)
                   ELSE DrvGoto(c, [c EXCEPT !.pc = "tx_held"])
           ELSE IF c.op \in {"commit", "rollback"}
           THEN IF pg.transaction_conn = None
                THEN /\ UNCHANGED drv_sessions
                     /\ DrvReturn(c, IF c.op = "commit" THEN commit(pg, TRUE).result
                                     ELSE rollback(pg, TRUE).result)
                ELSE /\ drv_sessions' =
                           [drv_sessions EXCEPT ![c.session].transaction_conn = None]
                     /\ DrvGoto(c, [c EXCEPT !.pc = "tx_held", !.conn = TRUE,
                                             !.using_tx = TRUE])
           ELSE /\ drv_sessions' = [drv_sessions EXCEPT
                                       ![c.session].transaction_conn = None,
                                       ![c.session].teardown = "taken"]
                /\ DrvGoto(c, [c EXCEPT !.pc = "close"])

\* begin_transaction: pool.acquire (655-658)
DrvBeginAcquire(c, acquire_ok) ==
    /\ last = Idle
    /\ c \in calls
    /\ c.op = "begin_transaction"
    /\ c.pc = "tx_held"
    /\ IF PoolClosed(drv_sessions[c.session]) \/ ~acquire_ok
       THEN DrvReturn(c, begin_transaction(drv_sessions[c.session], None, TRUE).result)
       ELSE DrvGoto(c, [c EXCEPT !.pc = "begin", !.conn = TRUE, !.using_tx = TRUE])
    /\ UNCHANGED drv_sessions
    /\ DrvTaskFrame

\* execute: active.insert(query_id, backend_pid) under the active_queries
\* mutex (360-363); the call's query id is told by its caller
DrvInsertActive(c) ==
    /\ last = Idle
    /\ c \in calls
    /\ c.op = "execute"
    /\ c.pc = "tx_held"
    /\ ActiveFree
    /\ drv_sessions' = [drv_sessions EXCEPT ![c.session].active_queries =
                           MapPut(@, c.caller, c.caller)]
    /\ DrvGoto(c, [c EXCEPT !.pc = "running"])
    /\ DrvTaskFrame

\* the server answers the statement the call has sent; the call returns and
\* drops its guard and its connection
DrvAnswer(c, server_ok) ==
    LET pg == drv_sessions[c.session]
        failed == DrvErr(execution_error("server"))
    IN  /\ last = Idle
        /\ c \in calls
        /\ \/ c.op = "execute" /\ c.pc = "running"
           \/ c.op \in {"insert_row", "commit", "rollback"} /\ c.pc = "tx_held"
           \/ c.op = "begin_transaction" /\ c.pc = "begin"
           \/ c.op = "cancel" /\ c.pc = "send"
        /\ (c.op = "execute" /\ server_ok) => ActiveFree
        /\ drv_sessions' =
              IF c.op = "execute" /\ server_ok
              THEN [drv_sessions EXCEPT ![c.session].active_queries =
                       MapRemove(@, c.caller)]
              ELSE IF c.op = "begin_transaction" /\ server_ok
              THEN [drv_sessions EXCEPT ![c.session] =
                       begin_transaction(pg, Some(1), TRUE).session]
              ELSE drv_sessions
        /\ DrvReturn(c, IF server_ok THEN DrvOk("unit") ELSE failed)
        /\ DrvTaskFrame

\* cancel: active_queries.lock().await (604-605)
DrvCancelLock(c) ==
    /\ last = Idle
    /\ c \in calls
    /\ c.op = "cancel"
    /\ c.pc = "start"
    /\ ActiveFree
    /\ DrvGoto(c, [c EXCEPT !.pc = "active_held"])
    /\ UNCHANGED drv_sessions
    /\ DrvTaskFrame

\* cancel: the pids are copied and the guard dropped (605-618), then
\* pool.acquire (620-624)
DrvCancelRead(c, acquire_ok) ==
    LET pg == drv_sessions[c.session]
    IN  /\ last = Idle
        /\ c \in calls
        /\ c.op = "cancel"
        /\ c.pc = "active_held"
        /\ "transaction_conn" \in CancelLocks => TxFree
        /\ IF DOMAIN pg.active_queries = {}
           THEN DrvReturn(c, DrvErr(execution_error("No active queries to cancel")))
           ELSE IF PoolClosed(pg) \/ ~acquire_ok
           THEN DrvReturn(c, DrvErr(connection_failed("pool acquire")))
           ELSE DrvGoto(c, [c EXCEPT !.pc = "send", !.conn = TRUE])
        /\ UNCHANGED drv_sessions
        /\ DrvTaskFrame

\* disconnect: session.pool.close() is called (272): the pool is marked
\* closed
DrvClose(c) ==
    /\ last = Idle
    /\ c \in calls
    /\ c.op = "disconnect"
    /\ c.pc = "close"
    /\ drv_sessions' = [drv_sessions EXCEPT ![c.session].teardown = "closing"]
    /\ DrvGoto(c, [c EXCEPT !.pc = "closing"])
    /\ DrvTaskFrame

\* disconnect: pool.close().await completes once every connection that was
\* checked out has come back (272-273)
DrvClosed(c) ==
    /\ last = Idle
    /\ c \in calls
    /\ c.op = "disconnect"
    /\ c.pc = "closing"
    /\ drv_sessions[c.session].transaction_conn = None
    /\ \A d \in calls : d.session = c.session => ~d.conn
    /\ drv_sessions' = [drv_sessions EXCEPT ![c.session].teardown = "done"]
    /\ DrvReturn(c, DrvOk("unit"))
    /\ DrvTaskFrame

\* the steps of the call of one caller
DrvStep(caller) ==
    \E c \in calls :
        /\ c.caller = caller
        /\ \/ \E acquire_ok \in BOOLEAN : DrvLockTx(c, acquire_ok)
           \/ \E acquire_ok \in BOOLEAN : DrvBeginAcquire(c, acquire_ok)
           \/ DrvInsertActive(c)
           \/ \E server_ok \in BOOLEAN : DrvAnswer(c, server_ok)
           \/ DrvCancelLock(c)
           \/ \E acquire_ok \in BOOLEAN : DrvCancelRead(c, acquire_ok)
           \/ DrvClose(c)
           \/ DrvClosed(c)

NextDrv ==
    \/ \E s \in DrvSessionIds : DrvOpen(s)
    \/ \E caller \in DrvCallerIds, op \in DrvOps, s \in DrvSessionIds :
          DrvEnter(caller, op, s)
    \/ \E c \in calls, acquire_ok \in BOOLEAN : DrvLockTx(c, acquire_ok)
    \/ \E c \in calls, acquire_ok \in BOOLEAN : DrvBeginAcquire(c, acquire_ok)
    \/ \E c \in calls : DrvInsertActive(c)
    \/ \E c \in calls, server_ok \in BOOLEAN : DrvAnswer(c, server_ok)
    \/ \E c \in calls : DrvCancelLock(c)
    \/ \E c \in calls, acquire_ok \in BOOLEAN : DrvCancelRead(c, acquire_ok)
    \/ \E c \in calls : DrvClose(c)
    \/ \E c \in calls : DrvClosed(c)
    \/ Deliver

SpecDrv == InitSql /\ [][NextDrv]_vars

\* The runtime polls every task that can go on, the tokio mutexes hand the
\* lock to their waiters in turn, and the server answers every statement: a
\* call whose next step is possible again and again takes it.
SpecDrvFair ==
    /\ SpecDrv
    /\ \A caller \in DrvCallerIds : SF_vars(DrvStep(caller))
    /\ WF_vars(Deliver)

\* C32: under every interleaving of execute, the row mutations,
\* begin_transaction, commit and rollback on one session, the session's
\* dedicated transaction connection is in use by at most one call at any
\* time.
C32_OneUserOfTransactionConn ==
    \A s \in DOMAIN drv_sessions :
        Cardinality({c \in calls : c.session = s /\ c.using_tx}) <= 1

\* C32 witness: an execute has its statement on the transaction connection
\* while a row mutation waits for the mutex.
C32_Witness ==
    \E e \in calls, r \in calls :
        /\ e.op = "execute" /\ e.pc = "running" /\ e.using_tx
        /\ r.op = "insert_row" /\ r.pc = "start" /\ r.session = e.session

\* the call needs the transaction_conn mutex to go on
WaitsForTx(c) ==
    \/ c.pc = "start" /\ c.op \in LocksTransactionConn
    \/ c.op = "cancel" /\ c.pc = "active_held" /\ "transaction_conn" \in CancelLocks

\* the call needs the active_queries mutex to go on
WaitsForActive(c) ==
    \/ c.op = "execute" /\ c.pc \in {"tx_held", "running"}
    \/ c.op = "cancel" /\ c.pc = "start"

\* each of the two holds the mutex the other one needs
MutexCycle ==
    \E c \in calls, d \in calls :
        /\ HoldsTx(c) /\ WaitsForActive(c)
        /\ HoldsActive(d) /\ WaitsForTx(d)

\* C33: cancel never takes or waits for the transaction_conn mutex, so a
\* cancel issued while an execute of the session holds it reads
\* active_queries and goes on without that execute finishing; and no calls
\* of execute, cancel, begin_transaction, commit and rollback hold the two
\* mutexes of the session in a cycle.
C33_CancelNeverWaitsForTx ==
    /\ \A c \in calls : c.op = "cancel" => ~WaitsForTx(c) /\ ~HoldsTx(c)
    /\ ~MutexCycle

\* C33 witness: a cancel has returned Ok while the execute whose statement
\* it cancelled is still with the server, holding transaction_conn.
C33_Witness ==
    /\ last # Idle
    /\ last.args.cmd = "cancel"
    /\ last.resp.ok
    /\ \E e \in calls : /\ e.op = "execute" /\ e.pc = "running"
                        /\ e.session = last.args.session

\* disconnect has emptied the session's transaction slot
SlotTornDown(pg_session) == pg_session.teardown \in {"taken", "closing", "done"}

\* how far the disconnect of the session has come
TeardownOf(s) ==
    IF s \in DOMAIN drv_sessions THEN drv_sessions[s].teardown ELSE "none"

\* C34: a transaction connection never outlives its session: once disconnect
\* has removed the session and emptied its slot, the session holds no
\* dedicated connection and none is stored afterwards, also when a
\* begin_transaction had looked the session up before; and every disconnect
\* that removed the session returns.
C34_NoTransactionConnAfterDisconnect ==
    /\ [](\A s \in DOMAIN drv_sessions :
             SlotTornDown(drv_sessions[s]) => drv_sessions[s].transaction_conn = None)
    /\ \A s \in DrvSessionIds : (TeardownOf(s) = "removed") ~> (TeardownOf(s) = "done")
====
